---- MODULE Spec2Model ----
(***************************************************************************)
(* Model of the NEXUS bat-monitoring scripts (software/python_scripts).     *)
(*                                                                         *)
(*   bat_summary.py      species classifier, detection loader, reconciler  *)
(*   batch-validator.py  physical validator                                *)
(*                                                                         *)
(* Conventions                                                             *)
(*   - A value that may be missing (Python None, pandas NaN) is a sequence  *)
(*     of length <= 1: None is <<>>, a present value v is <<v>>.            *)
(*   - A DataFrame is a sequence of rows (records), in row order.           *)
(*   - Frequencies in Hz are integers.  A mean frequency in kHz is kept     *)
(*     exactly, as an integer number of 1/KHZ kHz (KHZ = 2000, the divisor  *)
(*     of bat_summary.py:134), so x Hz / 1000 is 2*x and (lo + hi) / 2000   *)
(*     is lo + hi.                                                         *)
(*   - Confidence values are integer percent (0.5 is 50).                   *)
(*   - Times are integer milliseconds.                                      *)
(***************************************************************************)
EXTENDS Integers, Sequences, FiniteSets, TLC

VARIABLES
    \* ---- assign_species called on its own (bat_summary.py:94) ----
    freq_mean_khz,      \* the argument
    species_name,       \* the returned label, None before the call
    \* ---- bat_summary.py main() ----
    files_json,         \* the *.json files of INPUT_DIR, in glob order
    files_csv,          \* the *.csv files of INPUT_DIR, in glob order
    pc,                 \* "start" | "done"
    df_json,            \* load_all_json's result (line 273)
    df_csv,             \* load_all_csv's result (line 276)
    df_merged,          \* df right after pd.merge (line 321), else empty
    df_reconciled,      \* df at line 364, before the final species check
    df,                 \* df as written to all_detections.csv (line 378)
    species_counts,     \* species_summary.csv (line 397)
    species_per_file,   \* species_per_file.csv (line 403)
    outputs_written,    \* whether main got as far as writing its outputs
    \* ---- batch-validator.py: one row of one input file ----
    ref_csv,            \* the rows of REF_CSV (Frequenzen.csv)
    det_file,           \* the row's file: its columns and the row's cells
    validation,         \* validate_row's result for the row, None before
    \* ---- batch-validator.py main() over the files of INPUT_DIR ----
    val_files,          \* the *.csv files of INPUT_DIR, in glob order
    val_pc,             \* "start" | "loop" | "done"
    val_next,           \* position in val_files of the next f_path (line 145)
    review_dir,         \* names of the files copied to REVIEW_DIR (line 172)
    all_data,           \* all_data (line 174): one validated frame per file
    final_df,           \* validierung_gesamt.csv (line 187), None if unwritten
    \* ---- final_3way_merge.py main() ----
    nexus_files,        \* the *.csv log files of NEXUS_DIR, in glob order
    bat_master,         \* BAT_MASTER_FILE, None if it does not exist
    species_csv,        \* SPECIES_FILE, None if it does not exist
    merge_pc,           \* "start" | "done" | "exit"
    df_env,             \* df_env after line 138
    df_asof,            \* df_merged after line 175
    output_file,        \* OUTPUT_FILE (line 209), None if unwritten
    \* ---- wav_teiler_mit_index.py ----
    wav_files,          \* the *.wav files of audio_work, in glob order
    split_pc,           \* "loop" | "done"
    split_next,         \* position in wav_files of the next input_file
    segment_list,       \* segment_list (line 59)
    segment_index,      \* segment_index.csv (line 133), None if unwritten
    \* ---- bat_autostart_final.py main() ----
    wav_dir,            \* the *.wav files of WAV_DIRECTORY, None if no directory
    gps_pc,             \* "start" | "loop" | "done"
    gps_next,           \* position in wav_dir of the next fpath (line 417)
    points_for_kml,     \* points_for_kml (line 413)
    master_csv,         \* the Bat/GPS master table (line 353), None if unwritten
    \* ---- nexus_pipeline_commander.py main() ----
    missing_scripts,    \* the scripts of PIPELINE_SEQUENCE not in BASE_DIR
    no_detections,      \* bat_summary.py finds no data and writes no outputs
    cmd_pc,             \* "start" | "loop" | "finally" | "done"
    step,               \* i of line 134
    launched,           \* the subprocesses of the stages, as they were run
    power_requests,     \* the plans set_power_plan was called with
    active_plan,        \* the power plan of the system
    exit_code           \* None while running

classifierVars == <<freq_mean_khz, species_name>>
summaryVars == <<files_json, files_csv, pc, df_json, df_csv, df_merged,
                 df_reconciled, df, species_counts, species_per_file,
                 outputs_written>>
validatorVars == <<ref_csv, det_file, validation>>
runVars == <<val_files, val_pc, val_next, review_dir, all_data, final_df>>
commanderVars == <<missing_scripts, no_detections, cmd_pc, step, launched, power_requests,
                   active_plan, exit_code>>
gpsVars == <<wav_dir, gps_pc, gps_next, points_for_kml, master_csv>>
splitVars == <<wav_files, split_pc, split_next, segment_list, segment_index>>
mergeVars == <<nexus_files, bat_master, species_csv, merge_pc, df_env, df_asof,
               output_file>>
vars == <<classifierVars, summaryVars, validatorVars, runVars, mergeVars,
    splitVars, gpsVars, commanderVars>>

----------------------------------------------------------------------------
\* Missing values

None == <<>>
Some(v) == <<v>>
isna(x) == x = <<>>
notna(x) == x # <<>>

\* 1 kHz in the unit of a mean frequency
KHZ == 2000

----------------------------------------------------------------------------
\* bat_summary.py: configuration

SCORE_THRESHOLD == 50

\* the band list without its last entry
SPECIES_RULES_no_fallback == <<
    [name |-> "Rhinolophus hipposideros",    fmin |-> 106, fmax |-> 120],
    [name |-> "Rhinolophus ferrumequinum",   fmin |-> 77,  fmax |-> 88],
    [name |-> "Pipistrellus pygmaeus",       fmin |-> 53,  fmax |-> 58],
    [name |-> "Pipistrellus pipistrellus",   fmin |-> 45,  fmax |-> 75],
    [name |-> "Pipistrellus nathusii",       fmin |-> 37,  fmax |-> 50],
    [name |-> "Eptesicus serotinus",         fmin |-> 25,  fmax |-> 40],
    [name |-> "Nyctalus noctula",            fmin |-> 18,  fmax |-> 30],
    [name |-> "Nyctalus leisleri",           fmin |-> 25,  fmax |-> 45],
    [name |-> "Vespertilio murinus",         fmin |-> 22,  fmax |-> 35],
    [name |-> "Eptesicus nilssonii",         fmin |-> 23,  fmax |-> 35],
    [name |-> "Myotis mystacinus/brandtii",  fmin |-> 40,  fmax |-> 65],
    [name |-> "Myotis daubentonii",          fmin |-> 45,  fmax |-> 65],
    [name |-> "Myotis nattereri",            fmin |-> 40,  fmax |-> 65],
    [name |-> "Myotis bechsteinii",          fmin |-> 35,  fmax |-> 50],
    [name |-> "Myotis myotis/blythii",       fmin |-> 25,  fmax |-> 50],
    [name |-> "Myotis dasycneme",            fmin |-> 40,  fmax |-> 65],
    [name |-> "Myotis capaccinii",           fmin |-> 40,  fmax |-> 50],
    [name |-> "Myotis alcathoe",             fmin |-> 55,  fmax |-> 65],
    [name |-> "Myotis emarginatus",          fmin |-> 35,  fmax |-> 55],
    [name |-> "Barbastella barbastellus",    fmin |-> 30,  fmax |-> 40],
    [name |-> "Plecotus auritus/austriacus", fmin |-> 25,  fmax |-> 40],
    [name |-> "Miniopterus schreibersii",    fmin |-> 50,  fmax |-> 60],
    [name |-> "Tadarida teniotis",           fmin |-> 10,  fmax |-> 15],
    [name |-> "Hypsugo savii",               fmin |-> 30,  fmax |-> 55],
    [name |-> "Nyctalus lasiopterus",        fmin |-> 18,  fmax |-> 22],
    [name |-> "Pipistrellus kuhlii",         fmin |-> 35,  fmax |-> 50] >>

SPECIES_RULES == <<
    [name |-> "Rhinolophus hipposideros",    fmin |-> 106, fmax |-> 120],
    [name |-> "Rhinolophus ferrumequinum",   fmin |-> 77,  fmax |-> 88],
    [name |-> "Pipistrellus pygmaeus",       fmin |-> 53,  fmax |-> 58],
    [name |-> "Pipistrellus pipistrellus",   fmin |-> 45,  fmax |-> 75],
    [name |-> "Pipistrellus nathusii",       fmin |-> 37,  fmax |-> 50],
    [name |-> "Eptesicus serotinus",         fmin |-> 25,  fmax |-> 40],
    [name |-> "Nyctalus noctula",            fmin |-> 18,  fmax |-> 30],
    [name |-> "Nyctalus leisleri",           fmin |-> 25,  fmax |-> 45],
    [name |-> "Vespertilio murinus",         fmin |-> 22,  fmax |-> 35],
    [name |-> "Eptesicus nilssonii",         fmin |-> 23,  fmax |-> 35],
    [name |-> "Myotis mystacinus/brandtii",  fmin |-> 40,  fmax |-> 65],
    [name |-> "Myotis daubentonii",          fmin |-> 45,  fmax |-> 65],
    [name |-> "Myotis nattereri",            fmin |-> 40,  fmax |-> 65],
    [name |-> "Myotis bechsteinii",          fmin |-> 35,  fmax |-> 50],
    [name |-> "Myotis myotis/blythii",       fmin |-> 25,  fmax |-> 50],
    [name |-> "Myotis dasycneme",            fmin |-> 40,  fmax |-> 65],
    [name |-> "Myotis capaccinii",           fmin |-> 40,  fmax |-> 50],
    [name |-> "Myotis alcathoe",             fmin |-> 55,  fmax |-> 65],
    [name |-> "Myotis emarginatus",          fmin |-> 35,  fmax |-> 55],
    [name |-> "Barbastella barbastellus",    fmin |-> 30,  fmax |-> 40],
    [name |-> "Plecotus auritus/austriacus", fmin |-> 25,  fmax |-> 40],
    [name |-> "Miniopterus schreibersii",    fmin |-> 50,  fmax |-> 60],
    [name |-> "Tadarida teniotis",           fmin |-> 10,  fmax |-> 15],
    [name |-> "Hypsugo savii",               fmin |-> 30,  fmax |-> 55],
    [name |-> "Nyctalus lasiopterus",        fmin |-> 18,  fmax |-> 22],
    [name |-> "Pipistrellus kuhlii",         fmin |-> 35,  fmax |-> 50],
    [name |-> "Unknown/Fallback",            fmin |-> 0,   fmax |-> 125] >>

----------------------------------------------------------------------------
\* bat_summary.py: assign_species

\* a loop that lets a later band override an earlier one
RECURSIVE last_band(_, _, _)
last_band(rules, f, i) ==
    IF i > Len(rules) THEN "unbestimmt"
    ELSE LET later == last_band(rules, f, i + 1)
         IN  IF later # "unbestimmt" THEN later
             ELSE IF rules[i].fmin * KHZ <= f /\ f <= rules[i].fmax * KHZ
                  THEN rules[i].name
                  ELSE "unbestimmt"

\* the loop of lines 101-104 from list position i on, f a number
RECURSIVE first_band(_, _, _)
first_band(rules, f, i) ==
    IF i > Len(rules) THEN "unbestimmt"
    ELSE IF rules[i].fmin * KHZ <= f /\ f <= rules[i].fmax * KHZ
         THEN rules[i].name
         ELSE first_band(rules, f, i + 1)

\* assign_species over a given band list
classify(rules, x) ==
    IF isna(x) THEN "unbestimmt" ELSE first_band(rules, x[1], 1)

assign_species(x) == classify(SPECIES_RULES, x)

----------------------------------------------------------------------------
\* bat_summary.py: load_all_json
\*
\* A JSON file is [basename, readable, annotation]: readable is FALSE when
\* open/json.load raises; annotation is data.get("annotation", []).  A
\* detection is [is_dict, start_time, end_time, low_freq, high_freq,
\* freq_mean, det_prob]: is_dict is FALSE for an entry on which det.get
\* raises; the other fields are missing (None) or present.
\* The columns freq_max, freq_min and source_file are never read again and
\* are left out of the rows.

\* a mean that prefers the band edges to the freq_mean field
json_freq_mean_band_first(det) ==
    IF notna(det.low_freq) /\ notna(det.high_freq)
    THEN Some(((det.low_freq[1] + det.high_freq[1]) * KHZ) \div 2000)
    ELSE IF notna(det.freq_mean)
         THEN Some((det.freq_mean[1] * KHZ) \div 1000)
         ELSE None

\* lines 133-136
json_freq_mean(det) ==
    IF isna(det.freq_mean) /\ notna(det.low_freq) /\ notna(det.high_freq)
    THEN Some(((det.low_freq[1] + det.high_freq[1]) * KHZ) \div 2000)
    ELSE IF notna(det.freq_mean)
         THEN Some((det.freq_mean[1] * KHZ) \div 1000)
         ELSE None

\* lines 138-149
json_record(file, det) ==
    [start      |-> det.start_time,
     end        |-> det.end_time,
     low_freq   |-> det.low_freq,
     high_freq  |-> det.high_freq,
     freq_mean  |-> json_freq_mean(det),
     confidence |-> det.det_prob,
     basename   |-> file.basename]

\* lines 128-150 from detection i on: an exception ends the file's loop,
\* the records appended before it stay in all_records
RECURSIVE det_records(_, _)
det_records(file, i) ==
    IF i > Len(file.annotation) THEN <<>>
    ELSE IF ~file.annotation[i].is_dict THEN <<>>
    ELSE <<json_record(file, file.annotation[i])>> \o det_records(file, i + 1)

\* lines 122-153 for one file
file_records(file) ==
    IF ~file.readable THEN <<>> ELSE det_records(file, 1)

\* a loop that a file which cannot be read ends
RECURSIVE all_records_abort(_)
all_records_abort(files) ==
    IF files = <<>> THEN <<>>
    ELSE IF ~Head(files).readable THEN <<>>
    ELSE file_records(Head(files)) \o all_records_abort(Tail(files))

\* lines 119-153
RECURSIVE all_records(_)
all_records(files) ==
    IF files = <<>> THEN <<>>
    ELSE file_records(Head(files)) \o all_records(Tail(files))

\* pd.DataFrame(all_records), line 155: rows labelled 0, 1, 2, ...
DataFrame(records) ==
    [i \in 1..Len(records) |-> [index |-> i - 1] @@ records[i]]

\* a filter that decides file by file whether the file is scored
confidence_filter_per_file(frame, score_thresh) ==
    SelectSeq(frame, LAMBDA r :
        \/ \A i \in 1..Len(frame) :
               frame[i].basename = r.basename => isna(frame[i].confidence)
        \/ notna(r.confidence) /\ r.confidence[1] >= score_thresh)

\* a filter that takes its decision from the first row
confidence_filter_first_row(frame, score_thresh) ==
    IF isna(frame[1].confidence)
    THEN frame
    ELSE SelectSeq(frame, LAMBDA r :
             notna(r.confidence) /\ r.confidence[1] >= score_thresh)

\* lines 163-166 (to_numeric leaves a number a number and a missing value
\* missing); NaN >= thresh is False
confidence_filter(frame, score_thresh) ==
    IF \A i \in 1..Len(frame) : isna(frame[i].confidence)
    THEN frame
    ELSE SelectSeq(frame, LAMBDA r :
             notna(r.confidence) /\ r.confidence[1] >= score_thresh)

\* lines 168-169
dropna_freq_mean(frame) ==
    IF frame # <<>>
    THEN SelectSeq(frame, LAMBDA r : notna(r.freq_mean))
    ELSE frame

\* lines 175-178
json_columns(frame) ==
    [i \in 1..Len(frame) |->
        [species_json    |-> Some(assign_species(frame[i].freq_mean)),
         confidence_json |-> frame[i].confidence,
         low_freq_json   |-> frame[i].low_freq,
         high_freq_json  |-> frame[i].high_freq] @@ frame[i]]

\* lines 106-180
load_all_json(files, score_thresh) ==
    IF files = <<>> THEN <<>>
    ELSE LET frame == DataFrame(all_records(files))
         IN  IF frame = <<>> THEN <<>>
             ELSE json_columns(dropna_freq_mean(
                      confidence_filter(frame, score_thresh)))

----------------------------------------------------------------------------
\* bat_summary.py: load_all_csv
\*
\* A CSV file is [basename, readable, rows]; a row is [start_time, end_time,
\* low_freq, high_freq, class, det_prob, freq_mean], a field being None when
\* the cell is empty or the file has no such column.

\* lines 197-210 for one row of one file
csv_row(file, row) ==
    [start      |-> row.start_time,
     end        |-> row.end_time,
     low_freq   |-> row.low_freq,
     high_freq  |-> row.high_freq,
     species    |-> row.class,
     confidence |-> row.det_prob,
     freq_mean  |-> row.freq_mean,
     basename   |-> file.basename]

\* lines 195-212
RECURSIVE all_dfs(_)
all_dfs(files) ==
    IF files = <<>> THEN <<>>
    ELSE (IF Head(files).readable
          THEN <<[i \in 1..Len(Head(files).rows) |->
                     csv_row(Head(files), Head(files).rows[i])]>>
          ELSE <<>>) \o all_dfs(Tail(files))

\* pd.concat(all_dfs, ignore_index=True), line 219
RECURSIVE concat(_)
concat(dfs) ==
    IF dfs = <<>> THEN <<>> ELSE Head(dfs) \o concat(Tail(dfs))

\* lines 226-229
csv_columns(frame) ==
    [i \in 1..Len(frame) |->
        [species_csv    |-> frame[i].species,
         confidence_csv |-> frame[i].confidence,
         low_freq_csv   |-> frame[i].low_freq,
         high_freq_csv  |-> frame[i].high_freq] @@ frame[i]]

\* lines 182-231
load_all_csv(files) ==
    IF files = <<>> THEN <<>>
    ELSE IF all_dfs(files) = <<>> THEN <<>>
    ELSE csv_columns(concat(all_dfs(files)))

----------------------------------------------------------------------------
\* bat_summary.py: main, the reconciliation (lines 278-363)

\* the columns of a row that are written per file (line 391) or read by the
\* aggregates, the key and freq_mean
canonical(row) ==
    [basename   |-> row.basename,
     start      |-> row.start,
     end        |-> row.end,
     low_freq   |-> row.low_freq,
     high_freq  |-> row.high_freq,
     freq_mean  |-> row.freq_mean,
     confidence |-> row.confidence,
     species    |-> row.species]

\* lines 284-290: df_json has no species column, the other three exist
json_neutral(frame) ==
    [i \in 1..Len(frame) |-> [species |-> None] @@ frame[i]]

\* the rows of right with the key of left row l (merge_cols, line 293)
key_matches(l, right) ==
    SelectSeq(right, LAMBDA c :
        c.basename = l.basename /\ c.start = l.start /\ c.end = l.end)

\* one row of the left join: left row l beside right row c's csv columns
merge_row(l, c) ==
    [species_csv    |-> c.species_csv,
     confidence_csv |-> c.confidence_csv,
     low_freq_csv   |-> c.low_freq_csv,
     high_freq_csv  |-> c.high_freq_csv] @@ l

\* pd.merge(df, df_csv[...], on=merge_cols, how='left'), lines 319-321:
\* every left row once per matching right row, in left order, and once with
\* missing csv columns when nothing matches
RECURSIVE left_merge(_, _)
left_merge(left, right) ==
    IF left = <<>> THEN <<>>
    ELSE LET l == Head(left)
             m == key_matches(l, right)
             none == [species_csv |-> None, confidence_csv |-> None,
                      low_freq_csv |-> None, high_freq_csv |-> None]
         IN  (IF m = <<>> THEN <<merge_row(l, none)>>
              ELSE [k \in 1..Len(m) |-> merge_row(l, m[k])])
             \o left_merge(Tail(left), right)

\* the merged frame is labelled anew, 0, 1, 2, ...
reset_index(frame) ==
    [i \in 1..Len(frame) |-> [frame[i] EXCEPT !.index = i - 1]]

\* a fill that prefers the JSON value
where_json_first(csv, json) == IF notna(json) THEN json ELSE csv

\* np.where(csv.notna(), csv, json)
where_notna(csv, json) == IF notna(csv) THEN csv ELSE json

\* lines 328-332
final_species(m) == where_notna(m.species_csv, m.species_json)
\* a confidence that blends the two sources when both are present
final_confidence_blend(m) ==
    IF notna(m.confidence_csv) /\ notna(m.confidence_json)
    THEN Some((m.confidence_csv[1] + m.confidence_json[1]) \div 2)
    ELSE where_notna(m.confidence_csv, m.confidence_json)

\* lines 336-340
final_confidence(m) == where_notna(m.confidence_csv, m.confidence_json)
\* lines 344-348
final_low_freq(m) == where_notna(m.low_freq_csv, m.low_freq_json)
\* lines 349-353
final_high_freq(m) == where_notna(m.high_freq_csv, m.high_freq_json)

\* lines 328-353 over the merged frame
fill_rule(frame) ==
    [i \in 1..Len(frame) |->
        [frame[i] EXCEPT !.species    = final_species(frame[i]),
                         !.confidence = final_confidence(frame[i]),
                         !.low_freq   = final_low_freq(frame[i]),
                         !.high_freq  = final_high_freq(frame[i])]]

\* df['species'].isna().all()
species_all_na(frame) == \A i \in 1..Len(frame) : isna(frame[i].species)

\* df['species'] = df['freq_mean'].apply(assign_species)
apply_assign_species(frame) ==
    [i \in 1..Len(frame) |->
        [frame[i] EXCEPT !.species = Some(assign_species(frame[i].freq_mean))]]

\* a CSV-only branch that relabels whether or not a species is present
csv_only_reclassify(frame_csv) ==
    apply_assign_species(
        [i \in 1..Len(frame_csv) |->
            [frame_csv[i] EXCEPT
                !.species    = frame_csv[i].species_csv,
                !.confidence = frame_csv[i].confidence_csv,
                !.low_freq   = frame_csv[i].low_freq_csv,
                !.high_freq  = frame_csv[i].high_freq_csv]])

\* lines 299-313: df_json was empty
csv_only(frame_csv) ==
    LET d == [i \in 1..Len(frame_csv) |->
                 [frame_csv[i] EXCEPT
                     !.species    = frame_csv[i].species_csv,
                     !.confidence = frame_csv[i].confidence_csv,
                     !.low_freq   = frame_csv[i].low_freq_csv,
                     !.high_freq  = frame_csv[i].high_freq_csv]]
    IN  IF species_all_na(d) THEN apply_assign_species(d) ELSE d

\* lines 282-357: [merged: df after line 321, df: df at line 358]
reconcile(frame_json, frame_csv) ==
    LET d0 == IF frame_json # <<>> THEN json_neutral(frame_json) ELSE <<>>
    IN  IF frame_csv = <<>> THEN [merged |-> <<>>, df |-> d0]
        ELSE IF d0 = <<>> THEN [merged |-> <<>>, df |-> csv_only(frame_csv)]
        ELSE LET m == reset_index(left_merge(d0, frame_csv))
             IN  [merged |-> m, df |-> fill_rule(m)]

\* a final check that fills missing species row by row
final_species_backfill(frame) ==
    [i \in 1..Len(frame) |->
        IF isna(frame[i].species)
        THEN [frame[i] EXCEPT !.species = Some(assign_species(frame[i].freq_mean))]
        ELSE frame[i]]

\* lines 367-371 (freq_mean is a column of both loaders' frames)
final_species_check(frame) ==
    IF species_all_na(frame) THEN apply_assign_species(frame) ELSE frame

\* df["species"].value_counts(), line 397: missing values are not counted
value_counts(frame) ==
    LET present == {i \in 1..Len(frame) : notna(frame[i].species)}
    IN  [s \in {frame[i].species[1] : i \in present} |->
            Cardinality({i \in present : frame[i].species[1] = s})]

\* Series.unique(): the distinct values in order of first appearance
RECURSIVE unique(_)
unique(values) ==
    IF values = <<>> THEN <<>>
    ELSE LET init == unique(SubSeq(values, 1, Len(values) - 1))
             last == values[Len(values)]
         IN  IF \E k \in 1..Len(init) : init[k] = last
             THEN init ELSE Append(init, last)

\* the species column of the rows of one basename, in row order
RECURSIVE species_of(_, _)
species_of(frame, b) ==
    IF frame = <<>> THEN <<>>
    ELSE (IF Head(frame).basename = b THEN <<Head(frame).species>> ELSE <<>>)
         \o species_of(Tail(frame), b)

\* df.groupby("basename")["species"].unique(), line 403
groupby_unique(frame) ==
    [b \in {frame[i].basename : i \in 1..Len(frame)} |->
        unique(species_of(frame, b))]

\* a run that goes on with nothing to process
no_data_never(frame_json, frame_csv, frame) == FALSE

\* lines 278-280 and 361-363: the two places where main reports that there
\* is nothing to process and returns
no_data(frame_json, frame_csv, frame) ==
    (frame_json = <<>> /\ frame_csv = <<>>) \/ frame = <<>>

\* main(), lines 266-417: every value the run computes
main(json, csv) ==
    LET j == load_all_json(json, SCORE_THRESHOLD)
        c == load_all_csv(csv)
        r == reconcile(j, c)
        rec == [i \in 1..Len(r.df) |-> canonical(r.df[i])]
        fin == final_species_check(rec)
        stop == no_data(j, c, r.df)
    IN  [df_json |-> j, df_csv |-> c,
         df_merged |-> IF stop THEN <<>> ELSE r.merged,
         df_reconciled |-> IF stop THEN <<>> ELSE rec,
         df |-> IF stop THEN <<>> ELSE fin,
         species_counts |-> IF stop THEN <<>> ELSE value_counts(fin),
         species_per_file |-> IF stop THEN <<>> ELSE groupby_unique(fin),
         outputs_written |-> ~stop]

----------------------------------------------------------------------------
\* batch-validator.py
\*
\* A string is the sequence of its characters.

UPPER == <<"A","B","C","D","E","F","G","H","I","J","K","L","M",
           "N","O","P","Q","R","S","T","U","V","W","X","Y","Z">>
LOWER == <<"a","b","c","d","e","f","g","h","i","j","k","l","m",
           "n","o","p","q","r","s","t","u","v","w","x","y","z">>

\* str.lower()
lower(str) ==
    [i \in 1..Len(str) |->
        IF \E k \in 1..Len(UPPER) : UPPER[k] = str[i]
        THEN LOWER[CHOOSE k \in 1..Len(UPPER) : UPPER[k] = str[i]]
        ELSE str[i]]

\* str.strip()
RECURSIVE strip(_)
strip(str) ==
    IF str = <<>> THEN str
    ELSE IF Head(str) = " " THEN strip(Tail(str))
    ELSE IF str[Len(str)] = " " THEN strip(SubSeq(str, 1, Len(str) - 1))
    ELSE str

\* str.split(sep): the pieces between the occurrences of the character sep
RECURSIVE split(_, _)
split(str, sep) ==
    IF \A i \in 1..Len(str) : str[i] # sep THEN <<str>>
    ELSE LET at == CHOOSE i \in 1..Len(str) :
                       str[i] = sep /\ \A k \in 1..(i - 1) : str[k] # sep
         IN  <<SubSeq(str, 1, at - 1)>>
             \o split(SubSeq(str, at + 1, Len(str)), sep)

\* str.replace(ch, '')
remove(str, ch) == SelectSeq(str, LAMBDA c : c # ch)

\* key in str
contains(str, key) ==
    \E i \in 0..(Len(str) - Len(key)) : SubSeq(str, i + 1, i + Len(key)) = key

\* db[key] = params on an insertion-ordered dict kept as a sequence of
\* [key, params]: an existing key keeps its place and takes the new value
dict_set(db, key, params) ==
    IF \E i \in 1..Len(db) : db[i].key = key
    THEN [i \in 1..Len(db) |->
             IF db[i].key = key THEN [key |-> key, params |-> params] ELSE db[i]]
    ELSE Append(db, [key |-> key, params |-> params])

\* lines 60-78 for one row of the reference table: [Art, f_min_khz,
\* f_max_khz, d_min_ms, d_max_ms]
reference_row(db, row) ==
    LET name == lower(strip(split(row.Art, "(")[1]))
        params == [f_min |-> row.f_min_khz * 1000,
                   f_max |-> row.f_max_khz * 1000,
                   d_min |-> row.d_min_ms,
                   d_max |-> row.d_max_ms]
        db1 == dict_set(db, name, params)
    IN  IF \E i \in 1..Len(row.Art) : row.Art[i] = "("
        THEN dict_set(db1,
                 lower(strip(remove(split(row.Art, "(")[2], ")"))), params)
        ELSE db1

\* lines 54-80
RECURSIVE load_reference_db(_)
load_reference_db(rows) ==
    IF rows = <<>> THEN <<>>
    ELSE reference_row(load_reference_db(SubSeq(rows, 1, Len(rows) - 1)),
                       rows[Len(rows)])

\* line 88: str(row.get('class', '')).lower(); str(NaN) is 'nan'
species_detected(file, row) ==
    IF ~file.has_class THEN <<>>
    ELSE IF isna(row.class) THEN <<"n", "a", "n">>
    ELSE lower(row.class[1])

\* line 91: row.get('low_freq', 0)
low_freq_of(file, row) ==
    IF file.has_low_freq THEN row.low_freq ELSE Some(0)

\* lines 153-156: times are in ms here, so (end - start) * 1000 with times
\* in seconds is end - start
duration_ms(file, row) ==
    IF file.has_times /\ notna(row.start_time) /\ notna(row.end_time)
    THEN Some(row.end_time[1] - row.start_time[1])
    ELSE None

\* a key that is equal to the label
find_match_exact(db, species) ==
    LET hits == {i \in 1..Len(db) : db[i].key = species}
    IN  IF hits = {} THEN None
        ELSE Some(db[CHOOSE i \in hits : \A k \in hits : i <= k].params)

\* the entry of the last key, in dict order, that is part of the label
find_match_last(db, species) ==
    LET hits == {i \in 1..Len(db) : contains(species, db[i].key)}
    IN  IF hits = {} THEN None
        ELSE Some(db[CHOOSE i \in hits : \A k \in hits : i >= k].params)

\* lines 97-101: the entry of the first key, in dict order, that is part of
\* the label
find_match(db, species) ==
    LET hits == {i \in 1..Len(db) : contains(species, db[i].key)}
    IN  IF hits = {} THEN None
        ELSE Some(db[CHOOSE i \in hits : \A k \in hits : i <= k].params)

\* an issue string: its label and the number it shows, in tenths
Issue(label, tenths) == <<label, tenths>>

\* a frequency check with no guard
freq_issues_unguarded(freq, match) ==
    IF notna(freq) /\ ~(match.f_min <= freq[1] /\ freq[1] <= match.f_max)
    THEN <<Issue("Freq_Outlier", (freq[1] + 50) \div 100)>>
    ELSE <<>>

\* lines 109-111; f"{freq/1000:.1f}kHz" shows freq rounded to 0.1 kHz
freq_issues(freq, match) ==
    IF notna(freq) /\ freq[1] > 0
       /\ ~(match.f_min <= freq[1] /\ freq[1] <= match.f_max)
    THEN <<Issue("Freq_Outlier", (freq[1] + 50) \div 100)>>
    ELSE <<>>

\* lines 114-116; 0 is falsy; f"{duration:.1f}ms"
duration_issues(duration, match) ==
    IF notna(duration) /\ duration[1] # 0
       /\ ~(match.d_min <= duration[1] /\ duration[1] <= match.d_max)
    THEN <<Issue("Duration_Outlier", duration[1] * 10)>>
    ELSE <<>>

\* a plain word of the notes column
Word(w) == <<w>>

\* line 104
unknown_species ==
    [status |-> "Unknown_Species", notes |-> <<Word("Review_Required")>>]

\* lines 85-121; notes is the sequence of the words joined by "|"
validate_row(file, row, db) ==
    LET match == find_match(db, species_detected(file, row))
    IN  IF isna(match) THEN unknown_species
        ELSE LET issues == freq_issues(low_freq_of(file, row), match[1])
                           \o duration_issues(duration_ms(file, row), match[1])
             IN  IF issues = <<>>
                 THEN [status |-> "NEXUS_Verified", notes |-> <<Word("OK")>>]
                 ELSE [status |-> "Review_Required", notes |-> issues]

\* lines 160-161: the file's rows with Validation_Status and Quality_Notes
validated_frame(file, db) ==
    [k \in 1..Len(file.rows) |->
        LET result == validate_row(file, file.rows[k], db)
        IN  [file |-> file.name, index |-> k - 1, row |-> file.rows[k],
             Validation_Status |-> result.status,
             Quality_Notes |-> result.notes]]

\* lines 164-166: len(df[df['Validation_Status'] == status])
count_status(frame, status) ==
    Cardinality({k \in 1..Len(frame) : frame[k].Validation_Status = status})

\* a copy for Review_Required rows only
copy_to_review_no_unknown(frame) == count_status(frame, "Review_Required") > 0

\* line 171: review > 0 or unknown > 0
copy_to_review(frame) ==
    \/ count_status(frame, "Review_Required") > 0
    \/ count_status(frame, "Unknown_Species") > 0

----------------------------------------------------------------------------
\* final_3way_merge.py
\*
\* Timestamps are whole seconds since 2000-01-01 00:00:00, NaT is None.  A
\* date is a sequence of characters as it stands in the NEXUS log; a time
\* of day is the number of seconds its "HH:MM:SS" text stands for.

DIGITS == <<"0","1","2","3","4","5","6","7","8","9">>

isdigit(str) ==
    str # <<>> /\ \A i \in 1..Len(str) : \E d \in 1..Len(DIGITS) : DIGITS[d] = str[i]

\* int(str) for a string of digits
RECURSIVE int(_)
int(str) ==
    IF str = <<>> THEN 0
    ELSE 10 * int(SubSeq(str, 1, Len(str) - 1))
         + (CHOOSE d \in 0..9 : DIGITS[d + 1] = str[Len(str)])

\* str.replace(old, new) for single characters
replace_char(str, old, new) ==
    [i \in 1..Len(str) |-> IF str[i] = old THEN new ELSE str[i]]

\* str.zfill(width)
RECURSIVE zfill(_, _)
zfill(str, width) ==
    IF Len(str) >= width THEN str ELSE zfill(<<"0">> \o str, width)

isleap(y) == (y % 4 = 0 /\ y % 100 # 0) \/ y % 400 = 0

days_in_month(y, m) ==
    IF m = 2 THEN (IF isleap(y) THEN 29 ELSE 28)
    ELSE IF m \in {4, 6, 9, 11} THEN 30 ELSE 31

RECURSIVE days_before_month(_, _)
days_before_month(y, m) ==
    IF m <= 1 THEN 0
    ELSE days_before_month(y, m - 1) + days_in_month(y, m - 1)

days_before_year(y) ==
    365 * (y - 1) + ((y - 1) \div 4) - ((y - 1) \div 100) + ((y - 1) \div 400)

\* pd.to_datetime(f"{date_iso} {time_str}", errors='coerce'), line 89: the
\* timestamp of a well-formed YYYY-MM-DD date of the calendar, else NaT
to_datetime(date_iso, time) ==
    LET parts == split(date_iso, "-")
    IN  IF /\ Len(parts) = 3
           /\ Len(parts[1]) = 4 /\ isdigit(parts[1])
           /\ Len(parts[2]) = 2 /\ isdigit(parts[2])
           /\ Len(parts[3]) = 2 /\ isdigit(parts[3])
           /\ int(parts[1]) >= 1
           /\ int(parts[2]) \in 1..12
           /\ int(parts[3]) \in 1..days_in_month(int(parts[1]), int(parts[2]))
        THEN Some((days_before_year(int(parts[1])) - days_before_year(2000)
                   + days_before_month(int(parts[1]), int(parts[2]))
                   + int(parts[3]) - 1) * 86400 + time)
        ELSE None

\* lines 65-91
parse_timestamp(date_str, time_str) ==
    LET date == replace_char(date_str, "-", ".")
        parts == split(date, ".")
    IN  IF \A i \in 1..Len(date) : date[i] # "." THEN None
        ELSE IF Len(parts) # 3 THEN None
        ELSE LET day == parts[1]
                 month == parts[2]
                 year == IF Len(parts[3]) = 2
                         THEN <<"2", "0">> \o parts[3] ELSE parts[3]
                 date_iso == year \o <<"-">> \o zfill(month, 2)
                             \o <<"-">> \o zfill(day, 2)
             IN  to_datetime(date_iso, time_str)

\* sort_values: the rows in ascending order of their keys (keys[i] is the
\* key of frame[i]), rows of equal key in their old order
RECURSIVE sort_values(_, _)
sort_values(frame, keys) ==
    IF frame = <<>> THEN <<>>
    ELSE LET n == Len(frame)
             init == sort_values(SubSeq(frame, 1, n - 1), SubSeq(keys, 1, n - 1))
             before == Cardinality({i \in 1..(n - 1) : keys[i] <= keys[n]})
         IN  SubSeq(init, 1, before) \o <<frame[n]>>
             \o SubSeq(init, before + 1, n - 1)

\* lines 118-131: the rows of the readable log files of 10 bytes or more
\* that have the Date and Time columns, with their nexus_timestamp
RECURSIVE df_env_list(_)
df_env_list(files) ==
    IF files = <<>> THEN <<>>
    ELSE LET f == Head(files)
         IN  (IF f.size_ok /\ f.readable /\ f.has_date_time
              THEN << [k \in 1..Len(f.rows) |->
                         [nexus_timestamp |->
                              parse_timestamp(f.rows[k].Date, f.rows[k].Time)]
                         @@ f.rows[k]] >>
              ELSE <<>>)
             \o df_env_list(Tail(files))

\* lines 137-138
load_env(files) ==
    LET valid == SelectSeq(concat(df_env_list(files)),
                           LAMBDA r : notna(r.nexus_timestamp))
    IN  sort_values(valid,
                    [i \in 1..Len(valid) |-> valid[i].nexus_timestamp[1]])

\* the tolerance of the time join in seconds, line 174
TOLERANCE == 5

\* a join that looks backward only
asof_backward(l, right, tolerance) ==
    LET back == {i \in 1..Len(right) :
                    /\ right[i].nexus_timestamp[1] <= l.absolute_timestamp
                    /\ l.absolute_timestamp - right[i].nexus_timestamp[1] <= tolerance}
    IN  IF back = {} THEN None
        ELSE Some(right[CHOOSE i \in back : \A k \in back : k <= i])

\* pd.merge_asof(direction='nearest', tolerance) for one left row: the last
\* right row at or before it and the first at or after it, each only within
\* the tolerance; the later one only if it is strictly nearer
asof_nearest(l, right, tolerance) ==
    LET back == {i \in 1..Len(right) :
                    /\ right[i].nexus_timestamp[1] <= l.absolute_timestamp
                    /\ l.absolute_timestamp - right[i].nexus_timestamp[1] <= tolerance}
        forw == {i \in 1..Len(right) :
                    /\ right[i].nexus_timestamp[1] >= l.absolute_timestamp
                    /\ right[i].nexus_timestamp[1] - l.absolute_timestamp <= tolerance}
        b == CHOOSE i \in back : \A k \in back : k <= i
        f == CHOOSE i \in forw : \A k \in forw : i <= k
    IN  IF back = {} /\ forw = {} THEN None
        ELSE IF back = {} THEN Some(right[f])
        ELSE IF forw = {} THEN Some(right[b])
        ELSE IF right[f].nexus_timestamp[1] - l.absolute_timestamp
                < l.absolute_timestamp - right[b].nexus_timestamp[1]
             THEN Some(right[f]) ELSE Some(right[b])

\* lines 168-175: every left row once, beside the telemetry row it matched
\* (env) or beside none
merge_asof(left, right, tolerance) ==
    [k \in 1..Len(left) |->
        [env |-> asof_nearest(left[k], right, tolerance)] @@ left[k]]

\* str.find(sub) + 1: the first position of sub in str, 0 if there is none
find(str, sub) ==
    LET at == {i \in 1..(Len(str) - Len(sub) + 1) :
                  SubSeq(str, i, i + Len(sub) - 1) = sub}
    IN  IF at = {} THEN 0 ELSE CHOOSE i \in at : \A k \in at : i <= k

\* str.replace(old, ''): every occurrence of old, left to right, is removed
RECURSIVE replace(_, _)
replace(str, old) ==
    IF find(str, old) = 0 THEN str
    ELSE SubSeq(str, 1, find(str, old) - 1)
         \o replace(SubSeq(str, find(str, old) + Len(old), Len(str)), old)

\* str.strip(chars)
RECURSIVE strip_chars(_, _)
strip_chars(str, chars) ==
    IF str = <<>> THEN str
    ELSE IF Head(str) \in chars THEN strip_chars(Tail(str), chars)
    ELSE IF str[Len(str)] \in chars
    THEN strip_chars(SubSeq(str, 1, Len(str) - 1), chars)
    ELSE str

\* sep.join(parts)
RECURSIVE join(_, _)
join(parts, sep) ==
    IF parts = <<>> THEN <<>>
    ELSE IF Len(parts) = 1 THEN parts[1]
    ELSE parts[1] \o sep \o join(Tail(parts), sep)

\* the characters of the strings in code point order
ORD == <<" ", ",", ".">> \o DIGITS \o UPPER \o <<"[", "]", "_">> \o LOWER
ord(ch) == CHOOSE i \in 1..Len(ORD) : ORD[i] = ch

\* a < b for strings
RECURSIVE str_less(_, _)
str_less(x, y) ==
    IF y = <<>> THEN FALSE
    ELSE IF x = <<>> THEN TRUE
    ELSE IF Head(x) # Head(y) THEN ord(Head(x)) < ord(Head(y))
    ELSE str_less(Tail(x), Tail(y))

\* sorted(set)
RECURSIVE sorted(_)
sorted(strs) ==
    IF strs = {} THEN <<>>
    ELSE LET least == CHOOSE x \in strs : \A y \in strs : x = y \/ str_less(x, y)
         IN  <<least>> \o sorted(strs \ {least})

\* x.astype(str): NaN becomes 'nan'
astype_str(cell) == IF isna(cell) THEN <<"n", "a", "n">> ELSE cell[1]

\* lines 93-99
clean_species(species_str) ==
    IF isna(species_str) THEN <<"U","n","i","d","e","n","t","i","f","i","e","d">>
    ELSE strip_chars(replace(species_str[1], <<"n", "a", "n">>), {",", " "})

\* lines 184-186
merge_key(basename) ==
    LET stem == lower(IF find(basename, <<"_","s","e","g">>) = 0 THEN basename
                      ELSE SubSeq(basename, 1,
                                  find(basename, <<"_","s","e","g">>) - 1))
        n == Len(stem)
    IN  IF n >= 4 /\ SubSeq(stem, n - 3, n) = <<".","w","a","v">>
        THEN stem ELSE stem \o <<".","w","a","v">>

\* line 190: per merge_key the distinct cell texts, sorted and joined
df_agg(df_spec) ==
    [key \in {merge_key(df_spec[i].basename) : i \in 1..Len(df_spec)} |->
        join(sorted({astype_str(df_spec[i].species) :
                        i \in {k \in 1..Len(df_spec) :
                                  merge_key(df_spec[k].basename) = key}}),
             <<",", " ">>)]

\* lines 195-197 for one row: the aggregated species of the row's key, and
\* its cleaned text
with_species(row, agg) ==
    LET key == lower(row.filename)
        species == IF key \in DOMAIN agg THEN Some(agg[key]) ELSE None
    IN  [species |-> species,
         species_classified |-> Some(clean_species(species))] @@ row

\* lines 179-198: without the species file, its basename column or a file
\* name column in the main data, the step does nothing
add_species(frame, species_file, has_filename) ==
    IF isna(species_file) \/ ~species_file[1].has_basename \/ ~has_filename
    THEN [k \in 1..Len(frame) |->
             [species |-> None, species_classified |-> None] @@ frame[k]]
    ELSE [k \in 1..Len(frame) |->
             with_species(frame[k], df_agg(species_file[1].rows))]

\* lines 205-206: the telemetry fields without nexus_timestamp
drop_cols(frame) ==
    [k \in 1..Len(frame) |->
        [frame[k] EXCEPT !.env =
            IF isna(@) THEN None
            ELSE Some([Date |-> @[1].Date, Time |-> @[1].Time,
                       temp |-> @[1].temp])]]

\* main(), lines 105-215: exit is TRUE where sys.exit(1) ends the run
merge_main(nexus, bat, species_file) ==
    LET env_list == df_env_list(nexus)
        env == load_env(nexus)
        stop == nexus = <<>> \/ env_list = <<>> \/ isna(bat)
                \/ ~bat[1].has_timestamp
        left == sort_values(bat[1].rows,
                    [i \in 1..Len(bat[1].rows) |->
                        bat[1].rows[i].absolute_timestamp])
        merged == merge_asof(left, env, TOLERANCE)
    IN  IF stop
        THEN [exit |-> TRUE, df_env |-> IF env_list = <<>> THEN <<>> ELSE env,
              df_merged |-> <<>>, output |-> None]
        ELSE [exit |-> FALSE, df_env |-> env, df_merged |-> merged,
              output |-> Some(drop_cols(add_species(merged, species_file,
                                                    bat[1].has_filename)))]

----------------------------------------------------------------------------
\* wav_teiler_mit_index.py
\*
\* A recording is its sample rate sr (samples per second) and the number of
\* its samples; a length of time is kept in samples, so that
\* segment_duration_sec = segment_samples / sr.

SEGMENT_LENGTH_SEC == 2

\* a count of the whole segments only
num_segments_floor(file) == file.num_samples \div (SEGMENT_LENGTH_SEC * file.sr)

\* lines 86-90: math.ceil(len(y) / sr / SEGMENT_LENGTH_SEC)
num_segments(file) ==
    (file.num_samples + SEGMENT_LENGTH_SEC * file.sr - 1)
        \div (SEGMENT_LENGTH_SEC * file.sr)

min(x, y) == IF x <= y THEN x ELSE y

\* lines 100-123 for segment i (0-based) of the file
segment_entry(file, i) ==
    LET start_time_sec == i * SEGMENT_LENGTH_SEC
        start_sample == start_time_sec * file.sr
        end_sample == min((i + 1) * SEGMENT_LENGTH_SEC * file.sr, file.num_samples)
    IN  [original_filename |-> file.name,
         segment_filename  |-> <<file.name, i + 1>>,
         segment_number    |-> i + 1,
         segment_start_sec |-> start_time_sec,
         segment_samples   |-> end_sample - start_sample,
         sr                |-> file.sr]

\* lines 83-127: a file sf.read fails on adds nothing
file_segments(file) ==
    IF ~file.readable THEN <<>>
    ELSE [k \in 1..num_segments(file) |-> segment_entry(file, k - 1)]

----------------------------------------------------------------------------
\* bat_autostart_final.py
\*
\* Coordinates are whole degrees.  A recording has its GUANO metadata (None
\* if the library is missing or cannot read the file), given as the
\* positions parse_position_string finds under the keys of line 234, in
\* the order of the keys, and the position of the first text chunk with a
\* "Position:" (None if there is none).  Each comes with its timestamp,
\* None if there is no "Timestamp" or fromisoformat rejects it.

\* lines 211-217
is_plausible_europe(lat, lon) ==
    IF isna(lat) \/ isna(lon) THEN FALSE
    ELSE 35 <= lat[1] /\ lat[1] <= 70 /\ -10 <= lon[1] /\ lon[1] <= 30

\* lines 234-252 and 256-275: the first position that is plausible as it is
\* or swapped
RECURSIVE guano_position(_, _, _)
guano_position(positions, has_elevation, timestamp) ==
    IF positions = <<>> THEN None
    ELSE LET lat_raw == Some(Head(positions).lat)
             lon_raw == Some(Head(positions).lon)
             elev == IF has_elevation THEN <<"(+Elev)">> ELSE <<>>
         IN  IF is_plausible_europe(lat_raw, lon_raw)
             THEN Some([lat |-> lat_raw, lon |-> lon_raw,
                        timestamp |-> timestamp,
                        source |-> <<"GUANO">> \o elev])
             ELSE IF is_plausible_europe(lon_raw, lat_raw)
             THEN Some([lat |-> lon_raw, lon |-> lat_raw,
                        timestamp |-> timestamp,
                        source |-> <<"GUANO", "(Lat/Lon swapped)">> \o elev])
             ELSE guano_position(Tail(positions), has_elevation, timestamp)

\* lines 129-209: the position of the text chunk as it stands
extract_teensybat_header(file) ==
    IF isna(file.header) THEN None
    ELSE Some([lat |-> Some(file.header[1].lat), lon |-> Some(file.header[1].lon),
               timestamp |-> file.header[1].timestamp,
               source |-> <<"TeensyBat", "(Text-Fallback)">>])

\* lines 219-287
get_position(file) ==
    IF ~file.nonempty THEN None
    ELSE LET g == IF isna(file.guano) THEN None
                  ELSE guano_position(file.guano[1].positions,
                                      file.guano[1].has_elevation,
                                      file.guano[1].timestamp)
         IN  IF notna(g) THEN g ELSE extract_teensybat_header(file)

\* no test of the position
accept_point_any(pos) == notna(pos[1].lat) /\ notna(pos[1].lon)

\* lines 420 and 426
accept_point(pos) ==
    /\ notna(pos[1].lat) /\ notna(pos[1].lon)
    /\ is_plausible_europe(pos[1].lat, pos[1].lon)

\* lines 418-437 for one file: the points it adds
file_points(file) ==
    LET pos_data == get_position(file)
    IN  IF isna(pos_data) THEN <<>>
        ELSE IF accept_point(pos_data)
        THEN << [filename |-> file.name,
                 latitude |-> pos_data[1].lat[1],
                 longitude |-> pos_data[1].lon[1],
                 timestamp |-> pos_data[1].timestamp,
                 source |-> pos_data[1].source] >>
        ELSE <<>>

----------------------------------------------------------------------------
\* nexus_pipeline_commander.py

\* lines 57-71
PIPELINE_SEQUENCE ==
    << "wav_teiler_mit_index.py", "BATDETECT2_CLI", "batch-validator.py",
       "bat_autostart_final.py", "bat_summary.py", "bat_activity.py",
       "create_bat_graphics_path_fixed.py", "pareto_fledermaus.py",
       "nexus_guild_analyzer.py", "final_3way_merge.py",
       "spektrogramme_highlight.py", "spektrogramme_nexus.py",
       "create_kml_filtered.py" >>

\* what subprocess.run(..., check=True) can do (lines 97-101 and 114-119):
\* return, raise CalledProcessError, or raise something else
Outcomes == {"ok", "CalledProcessError", "Exception"}

\* lines 109-111: a script that is not there is passed over
is_skipped(script, missing) ==
    script # "BATDETECT2_CLI" /\ script \in missing

\* the stages that stop with sys.exit(1) when the file of bat_summary.py
\* they read is not there: create_bat_graphics_path_fixed.py lines 59-61
\* (all_detections.csv) and pareto_fledermaus.py lines 53-62
\* (species_summary.csv)
EXIT_WITHOUT_RESULTS ==
    {"create_bat_graphics_path_fixed.py", "pareto_fledermaus.py"}

\* the stages that return when it is not there: bat_activity.py lines
\* 126-128 (all_detections.csv)
RETURN_WITHOUT_RESULTS == {"bat_activity.py"}

\* what the subprocess of a stage can do: without the outputs of
\* bat_summary.py the stages that only read them end as their code says
stage_outcomes(script, without_results) ==
    IF without_results /\ script \in EXIT_WITHOUT_RESULTS
    THEN {"CalledProcessError"}
    ELSE IF without_results /\ script \in RETURN_WITHOUT_RESULTS
    THEN {"ok"}
    ELSE Outcomes

\* the loop goes on whatever the stage did
after_stage_continue(outcome) == "loop"

\* the process ends where the stage failed
after_stage_exit(outcome) == IF outcome = "ok" THEN "loop" ELSE "done"

\* lines 143-145 and 153-156: where main goes after a stage that ran
after_stage(outcome) == IF outcome = "ok" THEN "loop" ELSE "finally"

----------------------------------------------------------------------------
\* Inputs

MaxJsonDets == 2
MaxCsvRows == 2

SeqsUpTo(S, n) == UNION {[1..k -> S] : k \in 0..n}

\* (w is a detection window <<start, end>>)
JsonDet(w, lo, hi, fm, p) ==
    [is_dict |-> TRUE, start_time |-> Some(w[1]), end_time |-> Some(w[2]),
     low_freq |-> lo, high_freq |-> hi, freq_mean |-> fm, det_prob |-> p]

CsvRow(w, lo, hi, cl, p) ==
    [start_time |-> Some(w[1]), end_time |-> Some(w[2]),
     low_freq |-> lo, high_freq |-> hi, class |-> cl, det_prob |-> p,
     freq_mean |-> None]

\* main's JSON detections: two unscored ones with band edges (41 kHz and
\* 22 kHz), a scored one with freq_mean and no band edges, and an unscored
\* one with no frequency at all
JsonDetsMain ==
    { JsonDet(<<100, 300>>, Some(40000), Some(42000), None, None),
      JsonDet(<<400, 600>>, Some(20000), Some(24000), None, None),
      JsonDet(<<100, 300>>, None, None, Some(41000), Some(70)),
      JsonDet(<<400, 600>>, None, None, None, None) }

\* which of class, det_prob, low_freq, high_freq a CSV row has: the
\* patterns with an even number of cells, so that every combination of any
\* three of the four columns occurs
CsvPatterns ==
    {q \in [1..4 -> BOOLEAN] : Cardinality({k \in 1..4 : q[k]}) % 2 = 0}

CsvCells(w, q) ==
    CsvRow(w, IF q[3] THEN Some(39000) ELSE None,
              IF q[4] THEN Some(43000) ELSE None,
              IF q[1] THEN Some("Myotis myotis") ELSE None,
              IF q[2] THEN Some(90) ELSE None)

\* main's CSV rows: every pattern in the first window, a full row in the
\* second
CsvRowsMain ==
    {CsvCells(<<100, 300>>, q) : q \in CsvPatterns}
    \cup {CsvCells(<<400, 600>>, [k \in 1..4 |-> TRUE])}

\* the loader's JSON detections: with a mean frequency, unscored or scored
\* below, at and above the threshold; without one, unscored or scored
JsonDetsLoad ==
    { JsonDet(<<100, 300>>, Some(40000), Some(42000), None, p) :
        p \in {None, Some(30), Some(50), Some(70)} }
    \cup { JsonDet(<<100, 300>>, None, None, None, p) : p \in {None, Some(70)} }

JsonFile(b, dets) == [basename |-> b, readable |-> TRUE, annotation |-> dets]
CsvFile(b, rows) == [basename |-> b, readable |-> TRUE, rows |-> rows]

JsonInputsMain ==
    {<<>>} \cup {<<JsonFile("a", d)>> : d \in SeqsUpTo(JsonDetsMain, MaxJsonDets)}
CsvInputsMain ==
    {<<>>} \cup {<<CsvFile("a", r)>> : r \in SeqsUpTo(CsvRowsMain, MaxCsvRows)}

\* the loader's batch: two JSON files
JsonInputsLoad ==
    {<<JsonFile("a", d), JsonFile("b", e)>> :
        d \in SeqsUpTo(JsonDetsLoad, MaxJsonDets),
        e \in SeqsUpTo(JsonDetsLoad, MaxJsonDets)}

\* an entry of "annotation" that is not an object
BadDet ==
    [is_dict |-> FALSE, start_time |-> None, end_time |-> None,
     low_freq |-> None, high_freq |-> None, freq_mean |-> None, det_prob |-> None]

\* a batch's JSON detections: unscored ones with every combination of
\* low_freq, high_freq (41 kHz) and freq_mean (30 kHz) present or not, a
\* scored one above the threshold, a scored one below it, and a bad entry
BatchDets ==
    { JsonDet(<<100, 300>>, lo, hi, fm, None) :
        lo \in {None, Some(40000)}, hi \in {None, Some(42000)},
        fm \in {None, Some(30000)} }
    \cup { JsonDet(<<400, 600>>, None, None, Some(30000), Some(70)),
           JsonDet(<<400, 600>>, Some(40000), Some(42000), None, Some(30)),
           BadDet }

UnreadableJson(b) == [basename |-> b, readable |-> FALSE, annotation |-> <<>>]
UnreadableCsv(b) == [basename |-> b, readable |-> FALSE, rows |-> <<>>]

\* the entries that come in longer files: unscored without frequency, with
\* band edges, with band edges and freq_mean, scored, and bad
BatchDetsCore ==
    { JsonDet(<<100, 300>>, None, None, None, None),
      JsonDet(<<100, 300>>, Some(40000), Some(42000), None, None),
      JsonDet(<<100, 300>>, Some(40000), Some(42000), Some(30000), None),
      JsonDet(<<400, 600>>, None, None, Some(30000), Some(70)),
      BadDet }

\* a batch: a.json is unreadable, has one entry of any kind or up to
\* MaxBatchDets of the core ones, b.json is one of a few files, and the two
\* come in either order
MaxBatchDets == 2
BatchJsonA ==
    {UnreadableJson("a")}
    \cup {JsonFile("a", d) : d \in SeqsUpTo(BatchDets, 1)}
    \cup {JsonFile("a", d) : d \in SeqsUpTo(BatchDetsCore, MaxBatchDets)}
BatchJsonB ==
    LET band == JsonDet(<<100, 300>>, Some(40000), Some(42000), None, None)
        both == JsonDet(<<100, 300>>, Some(40000), Some(42000), Some(30000), None)
        scored == JsonDet(<<400, 600>>, None, None, Some(30000), Some(70))
    IN  { UnreadableJson("b"), JsonFile("b", <<>>), JsonFile("b", <<band>>),
          JsonFile("b", <<both>>), JsonFile("b", <<BadDet>>),
          JsonFile("b", <<band, BadDet>>),
          JsonFile("b", <<scored, BadDet, band>>) }
BatchJson ==
    UNION {{<<a, b>>, <<b, a>>} : a \in BatchJsonA, b \in BatchJsonB}

\* the batch's CSV files: none, an unreadable one alone or beside a good
\* one in either order, or two good ones
BatchCsv ==
    LET a == CsvFile("a", <<CsvRow(<<100, 300>>, None, None,
                                   Some("Myotis myotis"), Some(90))>>)
        b == CsvFile("b", <<CsvRow(<<100, 300>>, Some(39000), Some(43000),
                                   None, None)>>)
    IN  { <<>>, <<UnreadableCsv("a")>>, <<UnreadableCsv("a"), b>>,
          <<b, UnreadableCsv("a")>>, <<a, b>> }

\* assign_species' arguments: NaN and every half kHz from FreqMargin kHz
\* below the lowest band edge to FreqMargin kHz above the highest
FreqMargin == 2

FreqInputs ==
    {None} \cup
    {Some(h * (KHZ \div 2)) : h \in (-2 * FreqMargin)..(2 * (125 + FreqMargin))}

\* the reference table: two species, common name and scientific name
RefTable == <<
    [Art |-> <<"Z","w","e","r","g"," ","(","P","i","p"," ","p","i","p",")">>,
     f_min_khz |-> 45, f_max_khz |-> 75, d_min_ms |-> 4, d_max_ms |-> 8],
    [Art |-> <<"A","b","e","n","d"," ","(","N","y","c"," ","n","o","c",")">>,
     f_min_khz |-> 18, f_max_khz |-> 25, d_min_ms |-> 10, d_max_ms |-> 25] >>

\* class labels: the two species, one of them inside a longer label, and a
\* species the table does not have
ClassLabels ==
    { <<"P","i","p"," ","p","i","p">>,
      <<"N","y","c"," ","n","o","c">>,
      <<"c","f"," ","P","i","p"," ","p","i","p">>,
      <<"M","y","o"," ","m","y","o">> }

\* low_freq cells run from -1 kHz to MaxLowFreqKHz, durations from 0 ms to
\* MaxDurationMs
MaxLowFreqKHz == 77
MaxDurationMs == 13

ClassCells(has_class) ==
    IF has_class THEN {None} \cup {Some(l) : l \in ClassLabels} ELSE {None}
LowFreqCells(has_low_freq) ==
    IF has_low_freq
    THEN {None} \cup {Some(k * 1000) : k \in (-1)..MaxLowFreqKHz}
    ELSE {None}
EndTimeCells(has_times) ==
    IF has_times
    THEN {None} \cup {Some(100 + d) : d \in 0..MaxDurationMs}
    ELSE {None}

\* an input file of the validator with one row; a column the file lacks
\* has no cell
DetFiles ==
    UNION { { [has_class |-> hc, has_low_freq |-> hl, has_times |-> ht,
               row |-> [class |-> cl, low_freq |-> lo,
                        start_time |-> IF ht THEN Some(100) ELSE None,
                        end_time |-> en]] :
              cl \in ClassCells(hc), lo \in LowFreqCells(hl),
              en \in EndTimeCells(ht) } :
            hc \in BOOLEAN, hl \in BOOLEAN, ht \in BOOLEAN }

\* reference rows for the lookup order: the two rows of RefTable and a row
\* with no name in parentheses
RefRows ==
    { RefTable[1], RefTable[2],
      [Art |-> <<"M","o","p","s">>,
       f_min_khz |-> 30, f_max_khz |-> 40, d_min_ms |-> 2, d_max_ms |-> 6] }

\* reference tables of 1..MaxRefRows different rows, in every order
MaxRefRows == 2
RefTables ==
    {t \in SeqsUpTo(RefRows, MaxRefRows) :
        t # <<>> /\ \A i, k \in 1..Len(t) : i # k => t[i] # t[k]}

\* labels with one reference name, with two in either order, with a common
\* name beside another row's scientific name, and with none
MatchLabels ==
    { <<"P","i","p"," ","p","i","p">>,
      <<"N","y","c"," ","n","o","c">>,
      <<"N","y","c"," ","n","o","c","/","P","i","p"," ","p","i","p">>,
      <<"P","i","p"," ","p","i","p","/","N","y","c"," ","n","o","c">>,
      <<"Z","w","e","r","g"," ","N","y","c"," ","n","o","c">>,
      <<"M","o","p","s"," ","A","b","e","n","d">>,
      <<"M","o","p","s">>,
      <<"M","y","o"," ","m","y","o">> }

\* one-row files for the lookup order: a low_freq inside exactly one of the
\* three rows' ranges, and a duration inside exactly one or none
MatchFiles ==
    { [has_class |-> TRUE, has_low_freq |-> TRUE, has_times |-> TRUE,
       row |-> [class |-> Some(l), low_freq |-> Some(f),
                start_time |-> Some(100), end_time |-> Some(100 + d)]] :
      l \in MatchLabels, f \in {20000, 35000, 50000}, d \in {3, 7, 12} }

\* the rows of the validator run's files: one that verifies against
\* RefTable, one with a frequency outlier and one of no reference species
RunRows ==
    { [class |-> Some(<<"P","i","p"," ","p","i","p">>), low_freq |-> Some(50000),
       start_time |-> Some(100), end_time |-> Some(106)],
      [class |-> Some(<<"P","i","p"," ","p","i","p">>), low_freq |-> Some(20000),
       start_time |-> Some(100), end_time |-> Some(106)],
      [class |-> Some(<<"M","y","o"," ","m","y","o">>), low_freq |-> Some(50000),
       start_time |-> Some(100), end_time |-> Some(106)] }

\* a file pd.read_csv fails on, or a file of 0..MaxRunRows rows
MaxRunRows == 2
RunFiles(name) ==
    { [name |-> name, readable |-> FALSE, has_class |-> TRUE,
       has_low_freq |-> TRUE, has_times |-> TRUE, rows |-> <<>>] }
    \cup { [name |-> name, readable |-> TRUE, has_class |-> TRUE,
            has_low_freq |-> TRUE, has_times |-> TRUE, rows |-> r] :
           r \in SeqsUpTo(RunRows, MaxRunRows) }

\* INPUT_DIR with no file, with a.csv, or with a.csv and b.csv
RunInputs ==
    {<<>>} \cup {<<a>> : a \in RunFiles("a")}
    \cup {<<a, b>> : a \in RunFiles("a"), b \in RunFiles("b")}

\* 10:00:00 as seconds of the day, and 2025-03-14 10:00:00 as a timestamp
TenOClock == 10 * 3600
BaseTimestamp ==
    to_datetime(<<"2","0","2","5","-","0","3","-","1","4">>, TenOClock)[1]

\* seconds after 10:00:00 at which telemetry rows and recordings are stamped
JoinOffsets == {0, 5, 6, 10, 11, 30, 120}

NexusRow(date, offset) ==
    [Date |-> date, Time |-> TenOClock + offset, temp |-> 15 + (offset % 7)]
NexusFile(rows) ==
    [size_ok |-> TRUE, readable |-> TRUE, has_date_time |-> TRUE, rows |-> rows]
BatRow(filename, timestamp) ==
    [filename |-> filename, absolute_timestamp |-> timestamp]
BatMaster(rows) ==
    Some([has_timestamp |-> TRUE, has_filename |-> TRUE, rows |-> rows])

\* the time join: one log of up to MaxEnvRows rows of 14.03.2025 and up to
\* MaxBatRows recordings of that day; also no log, a log that is too
\* small, unreadable or without Date and Time, and no Bat master
MaxEnvRows == 2
MaxBatRows == 1
JoinNexus ==
    { <<NexusFile(rows)>> :
        rows \in SeqsUpTo({NexusRow(<<"1","4",".","0","3",".","2","0","2","5">>, t) : t \in JoinOffsets}, MaxEnvRows) }
JoinBats ==
    { BatMaster(rows) :
        rows \in SeqsUpTo({BatRow(<<"r","e","c","1",".","w","a","v">>, BaseTimestamp + t) : t \in JoinOffsets},
                          MaxBatRows) }
JoinInputs ==
    { [nexus |-> n, bat |-> b] : n \in JoinNexus, b \in JoinBats }
    \cup { [nexus |-> n, bat |-> BatMaster(<<BatRow(<<"r","e","c","1",".","w","a","v">>, BaseTimestamp)>>)] :
           n \in { <<>>,
                   <<[NexusFile(<<NexusRow(<<"1","4",".","0","3",".","2","0","2","5">>, 0)>>) EXCEPT !.size_ok = FALSE]>>,
                   <<[NexusFile(<<NexusRow(<<"1","4",".","0","3",".","2","0","2","5">>, 0)>>) EXCEPT !.readable = FALSE]>>,
                   <<[NexusFile(<<NexusRow(<<"1","4",".","0","3",".","2","0","2","5">>, 0)>>)
                         EXCEPT !.has_date_time = FALSE]>> } }
    \cup { [nexus |-> <<NexusFile(<<NexusRow(<<"1","4",".","0","3",".","2","0","2","5">>, 0)>>)>>, bat |-> b] :
           b \in { None,
                   Some([has_timestamp |-> FALSE, has_filename |-> TRUE,
                         rows |-> <<>>]) } }

\* calendar days, each in the spellings DD.MM.YYYY, DD.MM.YY and YYYY-MM-DD
CalendarDays ==
    { [dmy4 |-> <<"1","4",".","0","3",".","2","0","2","5">>,
       dmy2 |-> <<"1","4",".","0","3",".","2","5">>,
       iso |-> <<"2","0","2","5","-","0","3","-","1","4">>],
      [dmy4 |-> <<"2","9",".","0","2",".","2","0","2","4">>,
       dmy2 |-> <<"2","9",".","0","2",".","2","4">>,
       iso |-> <<"2","0","2","4","-","0","2","-","2","9">>],
      [dmy4 |-> <<"0","1",".","1","2",".","2","0","2","4">>,
       dmy2 |-> <<"0","1",".","1","2",".","2","4">>,
       iso |-> <<"2","0","2","4","-","1","2","-","0","1">>] }
DateSpellings == UNION {{d.dmy4, d.dmy2, d.iso} : d \in CalendarDays}

\* date parsing: one log of up to MaxParseRows rows stamped 10:00:00 on a
\* day in one of its spellings, and one recording at 10:00:02 of a day
MaxParseRows == 2
ParseInputs ==
    { [nexus |-> <<NexusFile(rows)>>,
       bat |-> BatMaster(<<BatRow(<<"r","e","c","1",".","w","a","v">>, to_datetime(d.iso, TenOClock + 2)[1])>>)] :
      rows \in SeqsUpTo({NexusRow(date, 0) : date \in DateSpellings}, MaxParseRows),
      d \in CalendarDays }

\* the species step: SPECIES_FILE with up to MaxSpeciesRows rows for
\* segments of two recordings, a species cell being empty or one name; one
\* recording, with or without rows in SPECIES_FILE
MaxSpeciesRows == 2
SpeciesRows ==
    { [basename |-> b, species |-> c] :
        b \in { <<"r","e","c","1","_","s","e","g","1",".","w","a","v">>,
               <<"r","e","c","1","_","s","e","g","2",".","w","a","v">>,
               <<"r","e","c","2","_","s","e","g","1",".","w","a","v">> },
        c \in { None, Some(<<"M","y","o">>), Some(<<"N","y","c">>) } }
SpeciesInputs ==
    { [bat |-> BatMaster(<<BatRow(f, BaseTimestamp)>>),
       species |-> Some([has_basename |-> TRUE, rows |-> rows])] :
      f \in { <<"R","E","C","1",".","W","A","V">>, <<"r","e","c","3",".","w","a","v">> },
      rows \in SeqsUpTo(SpeciesRows, MaxSpeciesRows) }
    \cup { [bat |-> BatMaster(<<BatRow(<<"R","E","C","1",".","W","A","V">>, BaseTimestamp)>>), species |-> c] :
           c \in { None, Some([has_basename |-> FALSE, rows |-> <<>>]) } }

\* recordings of 0..MaxSamples samples at 2 or 3 samples per second, or
\* unreadable
MaxSamples == 61
WavFiles(name) ==
    { [name |-> name, readable |-> FALSE, sr |-> 2, num_samples |-> 0] }
    \cup { [name |-> name, readable |-> TRUE, sr |-> r, num_samples |-> n] :
           r \in {2, 3}, n \in 0..MaxSamples }

\* audio_work with no file, with a.wav, or with a.wav and a short b.wav
WavInputs ==
    {<<>>} \cup {<<a>> : a \in WavFiles("a")}
    \cup {<<a, b>> : a \in WavFiles("a"),
                     b \in {f \in WavFiles("b") : f.num_samples \in {0, 5}}}

\* up to MaxMissing of the scripts are not in BASE_DIR
MaxMissing == 2
Scripts == {PIPELINE_SEQUENCE[i] : i \in 1..Len(PIPELINE_SEQUENCE)} \ {"BATDETECT2_CLI"}
CommanderInputs == {m \in SUBSET Scripts : Cardinality(m) <= MaxMissing}

\* positions inside the box (its corners too), outside it on either side,
\* inside only when swapped, and outside both ways
Positions ==
    { [lat |-> 50, lon |-> 10], [lat |-> 10, lon |-> 50],
      [lat |-> 35, lon |-> -10], [lat |-> -10, lon |-> 35],
      [lat |-> 70, lon |-> 30], [lat |-> 71, lon |-> 30],
      [lat |-> 34, lon |-> 10], [lat |-> 40, lon |-> 40] }

\* a recording has a timestamp or none
Timestamps == {None, Some(BaseTimestamp)}

HeaderAt(q, t) == [lat |-> q.lat, lon |-> q.lon, timestamp |-> t]

\* the GUANO metadata of a recording: up to MaxGuanoKeys position keys with
\* a timestamp and no elevation, and at most one key with or without each
MaxGuanoKeys == 2
GuanoData ==
    { [positions |-> ps, has_elevation |-> FALSE,
       timestamp |-> Some(BaseTimestamp)] :
      ps \in SeqsUpTo(Positions, MaxGuanoKeys) }
    \cup { [positions |-> ps, has_elevation |-> e, timestamp |-> t] :
           ps \in SeqsUpTo(Positions, 1), e \in BOOLEAN, t \in Timestamps }

\* the text chunk of a recording: every position with a timestamp or none
Headers == {HeaderAt(q, t) : q \in Positions, t \in Timestamps}

\* recordings: an empty file; GUANO metadata beside no text chunk, one with
\* a position inside the box and one with a position inside it only when
\* swapped; and a text chunk beside no GUANO metadata or one without
\* position
GpsFiles(name) ==
    { [name |-> name, nonempty |-> FALSE, guano |-> None, header |-> None] }
    \cup { [name |-> name, nonempty |-> TRUE, guano |-> Some(g), header |-> h] :
           g \in GuanoData,
           h \in { None,
                   Some(HeaderAt([lat |-> 50, lon |-> 10], Some(BaseTimestamp))),
                   Some(HeaderAt([lat |-> 10, lon |-> 50], None)) } }
    \cup { [name |-> name, nonempty |-> TRUE, guano |-> g, header |-> h] :
           g \in { None,
                   Some([positions |-> <<>>, has_elevation |-> FALSE,
                         timestamp |-> None]) },
           h \in {None} \cup {Some(q) : q \in Headers} }

\* no WAV_DIRECTORY, an empty one, one with a.wav, or with a.wav and a b.wav
\* that has one position in its text chunk
GpsInputs ==
    {None, Some(<<>>)} \cup {Some(<<a>>) : a \in GpsFiles("a")}
    \cup {Some(<<a, b>>) :
            a \in GpsFiles("a"),
            b \in { [name |-> "b", nonempty |-> TRUE, guano |-> None,
                     header |-> Some(HeaderAt(q, Some(BaseTimestamp)))] :
                    q \in {[lat |-> 50, lon |-> 10], [lat |-> 71, lon |-> 30]} }}

----------------------------------------------------------------------------
\* Specifications

ClassifierIdle == freq_mean_khz = None /\ species_name = None

RowIdle ==
    /\ det_file = [has_class |-> FALSE, has_low_freq |-> FALSE,
                   has_times |-> FALSE,
                   row |-> [class |-> None, low_freq |-> None,
                            start_time |-> None, end_time |-> None]]
    /\ validation = None

ValidatorIdle == ref_csv = <<>> /\ RowIdle

RunIdle ==
    /\ val_files = <<>> /\ val_pc = "start" /\ val_next = 1
    /\ review_dir = {} /\ all_data = <<>> /\ final_df = None

CommanderStart ==
    /\ cmd_pc = "start" /\ step = 1
    /\ launched = <<>> /\ power_requests = <<>>
    /\ active_plan = "other" /\ exit_code = None

CommanderIdle == missing_scripts = {} /\ no_detections = FALSE /\ CommanderStart

GpsStart ==
    /\ gps_pc = "start" /\ gps_next = 1
    /\ points_for_kml = <<>> /\ master_csv = None

GpsIdle == wav_dir = None /\ GpsStart

SplitStart ==
    /\ split_pc = "loop" /\ split_next = 1
    /\ segment_list = <<>> /\ segment_index = None

SplitIdle == wav_files = <<>> /\ SplitStart

MergeStart ==
    /\ merge_pc = "start"
    /\ df_env = <<>> /\ df_asof = <<>> /\ output_file = None

MergeIdle ==
    /\ nexus_files = <<>> /\ bat_master = None /\ species_csv = None
    /\ MergeStart

SummaryStart ==
    /\ pc = "start"
    /\ df_json = <<>> /\ df_csv = <<>> /\ df_merged = <<>>
    /\ df_reconciled = <<>> /\ df = <<>>
    /\ species_counts = <<>> /\ species_per_file = <<>>
    /\ outputs_written = FALSE

SummaryIdle == files_json = <<>> /\ files_csv = <<>> /\ SummaryStart

\* Frames: the programs other than the one a specification runs
ExceptClassifier == <<summaryVars, validatorVars, runVars, mergeVars,
    splitVars, gpsVars, commanderVars>>
ExceptSummary == <<classifierVars, validatorVars, runVars, mergeVars,
    splitVars, gpsVars, commanderVars>>
ExceptValidator == <<classifierVars, summaryVars, runVars, mergeVars,
    splitVars, gpsVars, commanderVars>>
ExceptRun == <<classifierVars, summaryVars, mergeVars, splitVars, gpsVars,
    commanderVars>>
ExceptMerge == <<classifierVars, summaryVars, validatorVars, runVars,
    splitVars, gpsVars, commanderVars>>
ExceptSplit == <<classifierVars, summaryVars, validatorVars, runVars,
    mergeVars, gpsVars, commanderVars>>
ExceptGps == <<classifierVars, summaryVars, validatorVars, runVars,
    mergeVars, splitVars, commanderVars>>
ExceptCommander == <<classifierVars, summaryVars, validatorVars, runVars,
    mergeVars, splitVars, gpsVars>>
RestOfClassifier == SummaryIdle /\ ValidatorIdle /\ RunIdle /\ MergeIdle /\
    SplitIdle /\ GpsIdle /\ CommanderIdle
RestOfSummary == ClassifierIdle /\ ValidatorIdle /\ RunIdle /\ MergeIdle /\
    SplitIdle /\ GpsIdle /\ CommanderIdle
RestOfValidator == ClassifierIdle /\ SummaryIdle /\ RunIdle /\ MergeIdle /\
    SplitIdle /\ GpsIdle /\ CommanderIdle
RestOfRun == ClassifierIdle /\ SummaryIdle /\ MergeIdle /\ SplitIdle /\
    GpsIdle /\ CommanderIdle
RestOfMerge == ClassifierIdle /\ SummaryIdle /\ ValidatorIdle /\ RunIdle /\
    SplitIdle /\ GpsIdle /\ CommanderIdle
RestOfSplit == ClassifierIdle /\ SummaryIdle /\ ValidatorIdle /\ RunIdle /\
    MergeIdle /\ GpsIdle /\ CommanderIdle
RestOfGps == ClassifierIdle /\ SummaryIdle /\ ValidatorIdle /\ RunIdle /\
    MergeIdle /\ SplitIdle /\ CommanderIdle
RestOfCommander == ClassifierIdle /\ SummaryIdle /\ ValidatorIdle /\
    RunIdle /\ MergeIdle /\ SplitIdle /\ GpsIdle

Init ==
    /\ files_json \in JsonInputsMain
    /\ files_csv \in CsvInputsMain
    /\ SummaryStart
    /\ RestOfSummary

\* one run of bat_summary.py
Main ==
    /\ pc = "start"
    /\ pc' = "done"
    /\ LET m == main(files_json, files_csv)
       IN  /\ df_json' = m.df_json
           /\ df_csv' = m.df_csv
           /\ df_merged' = m.df_merged
           /\ df_reconciled' = m.df_reconciled
           /\ df' = m.df
           /\ species_counts' = m.species_counts
           /\ species_per_file' = m.species_per_file
           /\ outputs_written' = m.outputs_written
    /\ UNCHANGED <<files_json, files_csv, ExceptSummary>>

Next == Main

Spec == Init /\ [][Next]_vars

\* bat_summary.py over a batch with files that cannot be read or processed
InitBatch ==
    /\ files_json \in BatchJson
    /\ files_csv \in BatchCsv
    /\ SummaryStart
    /\ RestOfSummary

SpecBatch == InitBatch /\ [][Next]_vars

\* bat_summary.py over a batch of two JSON files and no CSV file
InitLoad ==
    /\ files_json \in JsonInputsLoad
    /\ files_csv = <<>>
    /\ SummaryStart
    /\ RestOfSummary

SpecLoad == InitLoad /\ [][Next]_vars

\* assign_species on its own
InitClassify ==
    /\ freq_mean_khz \in FreqInputs
    /\ species_name = None
    /\ RestOfClassifier

Classify ==
    /\ species_name = None
    /\ species_name' = Some(assign_species(freq_mean_khz))
    /\ UNCHANGED <<freq_mean_khz, ExceptClassifier>>

NextClassify == Classify

SpecClassify == InitClassify /\ [][NextClassify]_vars

\* batch-validator.py on one row of one file
InitValidate ==
    /\ ref_csv = RefTable
    /\ det_file \in DetFiles
    /\ validation = None
    /\ RestOfValidator

\* lines 128 and 153-160 for the row
ValidateRow ==
    /\ validation = None
    /\ validation' =
          Some(validate_row(det_file, det_file.row, load_reference_db(ref_csv)))
    /\ UNCHANGED <<ref_csv, det_file, ExceptValidator>>

NextValidate == ValidateRow

SpecValidate == InitValidate /\ [][NextValidate]_vars

\* batch-validator.py main() over the files of INPUT_DIR
InitRun ==
    /\ ref_csv \in {RefTable, <<>>}
    /\ val_files \in RunInputs
    /\ val_pc = "start" /\ val_next = 1
    /\ review_dir = {} /\ all_data = <<>> /\ final_df = None
    /\ RowIdle
    /\ RestOfRun

\* lines 128-143: no reference db or no file ends the run
RunStart ==
    /\ val_pc = "start"
    /\ val_pc' = IF load_reference_db(ref_csv) = <<>> \/ val_files = <<>>
                 THEN "done" ELSE "loop"
    /\ UNCHANGED <<val_files, val_next, review_dir, all_data, final_df,
                   validatorVars, ExceptRun>>

\* lines 145-178: one pass of the loop; a file that cannot be read or has
\* no rows is skipped
RunFile ==
    /\ val_pc = "loop"
    /\ val_next <= Len(val_files)
    /\ val_next' = val_next + 1
    /\ LET file == val_files[val_next]
           frame == validated_frame(file, load_reference_db(ref_csv))
       IN  IF ~file.readable \/ file.rows = <<>>
           THEN UNCHANGED <<review_dir, all_data>>
           ELSE /\ review_dir' = IF copy_to_review(frame)
                                 THEN review_dir \cup {file.name}
                                 ELSE review_dir
                /\ all_data' = Append(all_data, frame)
    /\ UNCHANGED <<val_files, val_pc, final_df, validatorVars, ExceptRun>>

\* lines 180-188: the combined report
RunReport ==
    /\ val_pc = "loop"
    /\ val_next > Len(val_files)
    /\ val_pc' = "done"
    /\ final_df' = IF all_data = <<>> THEN None ELSE Some(concat(all_data))
    /\ UNCHANGED <<val_files, val_next, review_dir, all_data,
                   validatorVars, ExceptRun>>

NextRun == RunStart \/ RunFile \/ RunReport

SpecRun == InitRun /\ [][NextRun]_vars

\* one run of final_3way_merge.py
FinalMerge ==
    /\ merge_pc = "start"
    /\ LET m == merge_main(nexus_files, bat_master, species_csv)
       IN  /\ merge_pc' = IF m.exit THEN "exit" ELSE "done"
           /\ df_env' = m.df_env
           /\ df_asof' = m.df_merged
           /\ output_file' = m.output
    /\ UNCHANGED <<nexus_files, bat_master, species_csv, ExceptMerge>>

NextMerge == FinalMerge

\* final_3way_merge.py without a species file: the time join
InitJoin ==
    /\ \E in \in JoinInputs : nexus_files = in.nexus /\ bat_master = in.bat
    /\ species_csv = None
    /\ MergeStart
    /\ RestOfMerge

SpecJoin == InitJoin /\ [][NextMerge]_vars

\* final_3way_merge.py over logs with dates in the three spellings
InitParse ==
    /\ \E in \in ParseInputs : nexus_files = in.nexus /\ bat_master = in.bat
    /\ species_csv = None
    /\ MergeStart
    /\ RestOfMerge

SpecParse == InitParse /\ [][NextMerge]_vars

\* final_3way_merge.py with a species file
InitSpecies ==
    /\ nexus_files = <<NexusFile(<<NexusRow(<<"1","4",".","0","3",".","2","0","2","5">>, 0)>>)>>
    /\ \E in \in SpeciesInputs : bat_master = in.bat /\ species_csv = in.species
    /\ MergeStart
    /\ RestOfMerge

SpecSpecies == InitSpecies /\ [][NextMerge]_vars

\* wav_teiler_mit_index.py
InitSplit ==
    /\ wav_files \in WavInputs
    /\ SplitStart
    /\ RestOfSplit

\* lines 79-127: one input file
SplitFile ==
    /\ split_pc = "loop"
    /\ split_next <= Len(wav_files)
    /\ split_next' = split_next + 1
    /\ segment_list' = segment_list \o file_segments(wav_files[split_next])
    /\ UNCHANGED <<wav_files, split_pc, segment_index, ExceptSplit>>

\* lines 129-135: the index is written if there is a segment
WriteIndex ==
    /\ split_pc = "loop"
    /\ split_next > Len(wav_files)
    /\ split_pc' = "done"
    /\ segment_index' = IF segment_list # <<>> THEN Some(segment_list) ELSE None
    /\ UNCHANGED <<wav_files, split_next, segment_list, ExceptSplit>>

NextSplit == SplitFile \/ WriteIndex

SpecSplit == InitSplit /\ [][NextSplit]_vars

\* nexus_pipeline_commander.py
InitCommander ==
    /\ missing_scripts \in CommanderInputs
    /\ no_detections \in BOOLEAN
    /\ CommanderStart
    /\ RestOfCommander

\* lines 73-83: powercfg may fail, which is only reported
set_power_plan(plan_guid) ==
    /\ power_requests' = Append(power_requests, plan_guid)
    /\ active_plan' \in {plan_guid, active_plan}

\* lines 122-131
CommanderBegin ==
    /\ cmd_pc = "start"
    /\ set_power_plan("PLAN_HIGH_PERFORMANCE")
    /\ cmd_pc' = "loop"
    /\ UNCHANGED <<missing_scripts, no_detections, step, launched, exit_code, ExceptCommander>>

\* lines 134-145, one turn of the loop
RunStage ==
    /\ cmd_pc = "loop"
    /\ step <= Len(PIPELINE_SEQUENCE)
    /\ LET script == PIPELINE_SEQUENCE[step]
       IN  IF is_skipped(script, missing_scripts)
           THEN /\ step' = step + 1
                /\ UNCHANGED <<cmd_pc, launched, exit_code>>
           ELSE \E outcome \in stage_outcomes(script, no_detections) :
                  /\ launched' = Append(launched,
                                        [stage |-> step, script |-> script,
                                         outcome |-> outcome])
                  /\ cmd_pc' = after_stage(outcome)
                  /\ step' = IF cmd_pc' = "loop" THEN step + 1 ELSE step
                  /\ exit_code' = IF outcome = "CalledProcessError"
                                  THEN Some(1) ELSE exit_code
    /\ UNCHANGED <<missing_scripts, no_detections, power_requests, active_plan, ExceptCommander>>

\* lines 147-151
AllStagesDone ==
    /\ cmd_pc = "loop"
    /\ step > Len(PIPELINE_SEQUENCE)
    /\ cmd_pc' = "finally"
    /\ UNCHANGED <<missing_scripts, no_detections, step, launched, power_requests, active_plan,
                   exit_code, ExceptCommander>>

\* lines 156-160
Finally ==
    /\ cmd_pc = "finally"
    /\ set_power_plan("PLAN_BALANCED")
    /\ cmd_pc' = "done"
    /\ exit_code' = IF exit_code = None THEN Some(0) ELSE exit_code
    /\ UNCHANGED <<missing_scripts, no_detections, step, launched, ExceptCommander>>

NextCommander == CommanderBegin \/ RunStage \/ AllStagesDone \/ Finally

SpecCommander == InitCommander /\ [][NextCommander]_vars

\* bat_autostart_final.py
InitGps ==
    /\ wav_dir \in GpsInputs
    /\ GpsStart
    /\ RestOfGps

\* lines 406-415
ScanStart ==
    /\ gps_pc = "start"
    /\ gps_pc' = IF isna(wav_dir) THEN "done" ELSE "loop"
    /\ UNCHANGED <<wav_dir, gps_next, points_for_kml, master_csv, ExceptGps>>

\* lines 417-439: one file
ScanFile ==
    /\ gps_pc = "loop"
    /\ gps_next <= Len(wav_dir[1])
    /\ gps_next' = gps_next + 1
    /\ points_for_kml' = points_for_kml \o file_points(wav_dir[1][gps_next])
    /\ UNCHANGED <<wav_dir, gps_pc, master_csv, ExceptGps>>

\* lines 441-444 and 346-353
CreateOutputs ==
    /\ gps_pc = "loop"
    /\ gps_next > Len(wav_dir[1])
    /\ gps_pc' = "done"
    /\ master_csv' = IF points_for_kml # <<>> THEN Some(points_for_kml) ELSE None
    /\ UNCHANGED <<wav_dir, gps_next, points_for_kml, ExceptGps>>

NextGps == ScanStart \/ ScanFile \/ CreateOutputs

SpecGps == InitGps /\ [][NextGps]_vars

----------------------------------------------------------------------------
\* Properties of assign_species (SpecClassify)

Classified == species_name # None

\* band i of SPECIES_RULES contains the frequency x (closed interval)
InBand(i, x) ==
    /\ SPECIES_RULES[i].fmin * KHZ <= x[1]
    /\ x[1] <= SPECIES_RULES[i].fmax * KHZ

\* the name of the first band of SPECIES_RULES that contains x, if any
FirstBandNames(x) ==
    {SPECIES_RULES[i].name : i \in
        {k \in 1..Len(SPECIES_RULES) :
            InBand(k, x) /\ \A j \in 1..(k - 1) : ~InBand(j, x)}}

ExampleRules == << [name |-> "A", fmin |-> 35, fmax |-> 45],
                   [name |-> "B", fmin |-> 38, fmax |-> 50] >>

\* C3: for every non-NaN frequency, assign_species returns the name of the
\* first band in list order whose closed interval contains it; with
\* ("A",35,45) before ("B",38,50), 40.0 yields "A".
C3_FirstBandWins ==
    /\ (Classified /\ notna(freq_mean_khz)) =>
           \A n \in FirstBandNames(freq_mean_khz) : species_name = Some(n)
    /\ Classified => classify(ExampleRules, Some(40 * KHZ)) = "A"

\* C3 witness: 41 kHz lies in several bands and got the earliest one
C3_Witness ==
    /\ Classified
    /\ freq_mean_khz = Some(41 * KHZ)
    /\ Cardinality({i \in 1..Len(SPECIES_RULES) : InBand(i, freq_mean_khz)}) > 1
    /\ species_name = Some("Pipistrellus nathusii")

\* C4 as stated: assign_species returns "unbestimmt" only when its input is
\* NaN (every finite input gets a configured band name).
C4_Original ==
    (Classified /\ species_name = Some("unbestimmt")) => isna(freq_mean_khz)

\* C4 amended: assign_species returns "unbestimmt" exactly when its input
\* is NaN or lies outside the catch-all band [0, 125] kHz; every input in
\* [0, 125] kHz gets a configured band name.
C4_SentinelOutsideCatchAll ==
    Classified =>
        (species_name = Some("unbestimmt") <=>
            \/ isna(freq_mean_khz)
            \/ freq_mean_khz[1] < 0
            \/ freq_mean_khz[1] > 125 * KHZ)

\* C4 witness: a finite frequency above 125 kHz was labelled "unbestimmt"
C4_Witness ==
    /\ Classified
    /\ notna(freq_mean_khz)
    /\ freq_mean_khz[1] > 125 * KHZ
    /\ species_name = Some("unbestimmt")

----------------------------------------------------------------------------
\* Properties of bat_summary.py's main (Spec, SpecLoad)

Done == pc = "done"

SameKey(r, q) ==
    r.basename = q.basename /\ r.start = q.start /\ r.end = q.end

\* the CSV value if present, else the JSON value
CsvElseJson(c, j) == IF c # None THEN c ELSE j

\* C1: when both tables are non-empty, every canonical row carries, for each
\* of species, confidence, low_freq and high_freq, the CSV value of the row
\* with its key if that value is present and else its JSON row's value; a
\* row with no CSV match keeps all four JSON values.
C1_CsvPriorityPerRow ==
    (Done /\ df_json # <<>> /\ df_csv # <<>>) =>
        \A i \in 1..Len(df) :
            \E j \in 1..Len(df_json) :
                /\ SameKey(df_json[j], df[i])
                /\ \/ /\ \A c \in 1..Len(df_csv) : ~SameKey(df_csv[c], df[i])
                      /\ df[i].species = df_json[j].species_json
                      /\ df[i].confidence = df_json[j].confidence
                      /\ df[i].low_freq = df_json[j].low_freq
                      /\ df[i].high_freq = df_json[j].high_freq
                   \/ \E c \in 1..Len(df_csv) :
                      /\ SameKey(df_csv[c], df[i])
                      /\ df[i].species =
                            CsvElseJson(df_csv[c].species, df_json[j].species_json)
                      /\ df[i].confidence =
                            CsvElseJson(df_csv[c].confidence, df_json[j].confidence)
                      /\ df[i].low_freq =
                            CsvElseJson(df_csv[c].low_freq, df_json[j].low_freq)
                      /\ df[i].high_freq =
                            CsvElseJson(df_csv[c].high_freq, df_json[j].high_freq)

\* C1 witness: one canonical row took its confidence from the CSV row and
\* kept the JSON low_freq the CSV row lacks, another has no CSV match
C1_Witness ==
    /\ Done /\ df_json # <<>> /\ df_csv # <<>>
    /\ \E i \in 1..Len(df), c \in 1..Len(df_csv), j \in 1..Len(df_json) :
          /\ SameKey(df_csv[c], df[i]) /\ SameKey(df_json[j], df[i])
          /\ notna(df_csv[c].confidence) /\ isna(df_json[j].confidence)
          /\ df[i].confidence = df_csv[c].confidence
          /\ isna(df_csv[c].low_freq) /\ notna(df_json[j].low_freq)
          /\ df[i].low_freq = df_json[j].low_freq
    /\ \E k \in 1..Len(df) :
          \A c \in 1..Len(df_csv) : ~SameKey(df_csv[c], df[k])

\* the reconciled frame as the next fill's fallback
AsFallback(frame) ==
    [i \in 1..Len(frame) |->
        [frame[i] EXCEPT !.species_json    = frame[i].species,
                         !.confidence_json = frame[i].confidence,
                         !.low_freq_json   = frame[i].low_freq,
                         !.high_freq_json  = frame[i].high_freq]]

Contested(frame) ==
    [i \in 1..Len(frame) |->
        <<frame[i].species, frame[i].confidence,
          frame[i].low_freq, frame[i].high_freq>>]

\* C2: applying the CSV-priority fill again to the reconciled table, the
\* canonical values as fallback and the same CSV values, changes no
\* species, confidence, low_freq or high_freq.
C2_FillIdempotent ==
    (Done /\ df_merged # <<>>) =>
        Contested(fill_rule(AsFallback(fill_rule(df_merged))))
            = Contested(fill_rule(df_merged))

\* C2 witness: a merged row in which both sources give a confidence, and
\* the two differ
C2_Witness ==
    /\ Done
    /\ \E i \in 1..Len(df_merged) :
          /\ notna(df_merged[i].confidence_csv)
          /\ notna(df_merged[i].confidence_json)
          /\ df_merged[i].confidence_csv # df_merged[i].confidence_json
          /\ df[i].confidence = df_merged[i].confidence_csv

\* the records the loader read, labelled as the DataFrame labels them
Loaded == DataFrame(all_records(files_json))

Scored(recs) == \E i \in 1..Len(recs) : notna(recs[i].confidence)

\* C5: the confidence filter is one decision over the whole batch: when no
\* record of any file has a confidence, the filter removes nothing; when
\* some record has one, exactly the records with confidence >= threshold
\* pass it, so a record without a confidence is dropped, also in a file
\* that has no confidence at all.  (A record that passes is still dropped
\* by the later frequency-presence filter when it has no freq_mean.)
C5_BatchWideConfidenceFilter ==
    Done =>
        /\ {df_json[k].index : k \in 1..Len(df_json)} =
              {Loaded[i].index : i \in
                  {n \in 1..Len(Loaded) :
                      /\ Scored(Loaded) =>
                            /\ notna(Loaded[n].confidence)
                            /\ Loaded[n].confidence[1] >= SCORE_THRESHOLD
                      /\ notna(Loaded[n].freq_mean)}}
        /\ \A k \in 1..Len(df_json) : \A l \in 1..Len(df_json) :
              k < l => df_json[k].index < df_json[l].index

\* C5 witness: file a has a record at or above the threshold and survives,
\* file b has records with a frequency but no confidence at all, and none
\* of them survives
C5_Witness ==
    /\ Done
    /\ \E k \in 1..Len(df_json) : df_json[k].basename = "a"
    /\ \E i \in 1..Len(Loaded) :
          Loaded[i].basename = "b" /\ notna(Loaded[i].freq_mean)
    /\ \A i \in 1..Len(Loaded) :
          Loaded[i].basename = "b" => isna(Loaded[i].confidence)
    /\ \A k \in 1..Len(df_json) : df_json[k].basename # "b"

\* the classifier's label of a mean frequency, from the band list
Label(x) ==
    IF isna(x) \/ FirstBandNames(x) = {} THEN "unbestimmt"
    ELSE CHOOSE n \in FirstBandNames(x) : TRUE

\* row i of the canonical table is row i of the given table, with the three
\* numeric columns
SameRow(i, table) ==
    /\ SameKey(df[i], table[i])
    /\ df[i].confidence = table[i].confidence
    /\ df[i].low_freq = table[i].low_freq
    /\ df[i].high_freq = table[i].high_freq

\* a JSON-only batch of one unscored detection, 40000 Hz to 42000 Hz
OneUnscoredDetection ==
    /\ files_csv = <<>>
    /\ Len(files_json) = 1
    /\ Len(files_json[1].annotation) = 1
    /\ files_json[1].annotation[1].low_freq = Some(40000)
    /\ files_json[1].annotation[1].high_freq = Some(42000)
    /\ files_json[1].annotation[1].freq_mean = None
    /\ files_json[1].annotation[1].det_prob = None

OneRowAt41kHz ==
    OneUnscoredDetection =>
        Len(df) = 1 /\ df[1].species = Some(Label(Some(41 * KHZ)))

\* C6 as stated: if exactly one of the two tables is non-empty, the
\* canonical table is that table's rows, none added or dropped, with
\* species, confidence, low_freq and high_freq taken from it; one unscored
\* JSON detection of 40000-42000 Hz gives one row labelled for 41.0 kHz.
C6_Original ==
    Done =>
        /\ (df_json # <<>> /\ df_csv = <<>>) =>
              /\ Len(df) = Len(df_json)
              /\ \A i \in 1..Len(df) :
                    SameRow(i, df_json) /\ df[i].species = df_json[i].species_json
        /\ (df_json = <<>> /\ df_csv # <<>>) =>
              /\ Len(df) = Len(df_csv)
              /\ \A i \in 1..Len(df) :
                    SameRow(i, df_csv) /\ df[i].species = df_csv[i].species
        /\ OneRowAt41kHz

\* C6 amended: as stated, except that when the species of every row of the
\* one non-empty table is absent, each canonical row's species is the
\* classifier's label of the row's freq_mean ("unbestimmt" when freq_mean
\* is absent) instead of the absent value.
C6_SingleSourceTable ==
    Done =>
        /\ (df_json # <<>> /\ df_csv = <<>>) =>
              /\ Len(df) = Len(df_json)
              /\ \A i \in 1..Len(df) :
                    SameRow(i, df_json) /\ df[i].species = df_json[i].species_json
        /\ (df_json = <<>> /\ df_csv # <<>>) =>
              /\ Len(df) = Len(df_csv)
              /\ \A i \in 1..Len(df) :
                    /\ SameRow(i, df_csv)
                    /\ df[i].species =
                          IF \E k \in 1..Len(df_csv) : notna(df_csv[k].species)
                          THEN df_csv[i].species
                          ELSE Some(Label(df_csv[i].freq_mean))
        /\ OneRowAt41kHz

\* C6 witness: JSON detections were read, none survived the filters, and
\* the canonical table is the two CSV rows, one with a species and one
\* without
C6_Witness ==
    /\ Done
    /\ Len(files_json) = 1 /\ files_json[1].annotation # <<>>
    /\ df_json = <<>>
    /\ Len(df_csv) = 2 /\ Len(df) = 2
    /\ notna(df[1].species) /\ isna(df[2].species)

\* C7: after reconciliation the species column is recomputed from
\* freq_mean only when every canonical row's species is absent; when some
\* row has a species, no row's species changes and an absent species stays
\* absent.  The same holds for the check inside the CSV-only branch.
C7_RecomputeOnlyWhenAllAbsent ==
    (Done /\ df_reconciled # <<>>) =>
        /\ Len(df) = Len(df_reconciled)
        /\ \A i \in 1..Len(df) :
              df[i].species =
                  IF \E k \in 1..Len(df_reconciled) :
                         notna(df_reconciled[k].species)
                  THEN df_reconciled[i].species
                  ELSE Some(Label(df_reconciled[i].freq_mean))
        /\ (df_json = <<>> /\ \E k \in 1..Len(df_csv) : notna(df_csv[k].species)) =>
              \A i \in 1..Len(df) : df[i].species = df_csv[i].species

\* C7 witness: the canonical table keeps a row without a species beside a
\* row with one
C7_Witness ==
    /\ Done
    /\ \E i \in 1..Len(df) : \E k \in 1..Len(df) :
          /\ isna(df_reconciled[i].species) /\ isna(df[i].species)
          /\ notna(df[k].species)

\* the species labels in the order of Python's sorted()
SortedNames == <<
    "Barbastella barbastellus", "Eptesicus nilssonii", "Eptesicus serotinus",
    "Hypsugo savii", "Miniopterus schreibersii", "Myotis alcathoe",
    "Myotis bechsteinii", "Myotis capaccinii", "Myotis dasycneme",
    "Myotis daubentonii", "Myotis emarginatus", "Myotis myotis",
    "Myotis myotis/blythii", "Myotis mystacinus/brandtii", "Myotis nattereri",
    "Nyctalus lasiopterus", "Nyctalus leisleri", "Nyctalus noctula",
    "Pipistrellus kuhlii", "Pipistrellus nathusii",
    "Pipistrellus pipistrellus", "Pipistrellus pygmaeus",
    "Plecotus auritus/austriacus", "Rhinolophus ferrumequinum",
    "Rhinolophus hipposideros", "Tadarida teniotis", "Unknown/Fallback",
    "Vespertilio murinus", "unbestimmt" >>

Rank(name) == CHOOSE k \in 1..Len(SortedNames) : SortedNames[k] = name

\* C8 as stated: the per-file species artifact maps each basename to the
\* distinct species of that file, each exactly once and in sorted order,
\* whatever the order of the detections.
C8_Original ==
    (Done /\ outputs_written) =>
        \A b \in DOMAIN species_per_file :
            LET v == species_per_file[b]
            IN  /\ \A i \in 1..Len(df) :
                      df[i].basename = b =>
                          Cardinality({k \in 1..Len(v) : v[k] = df[i].species}) = 1
                /\ \A k \in 1..Len(v) : \A l \in 1..Len(v) :
                      (k < l /\ notna(v[k]) /\ notna(v[l])) =>
                          Rank(v[k][1]) < Rank(v[l][1])

\* batch-validator.py on one row, for every reference table of RefTables
InitMatch ==
    /\ ref_csv \in RefTables
    /\ det_file \in MatchFiles
    /\ validation = None
    /\ RestOfValidator

SpecMatch == InitMatch /\ [][NextValidate]_vars

----------------------------------------------------------------------------
\* Properties of batch-validator.py's validate_row (SpecValidate)

Validated == validation # None

\* the positions of the reference dict's keys that are part of the row's
\* lowercased label, and the first of them
Matching(db) ==
    {i \in 1..Len(db) : contains(species_detected(det_file, det_file.row), db[i].key)}
FirstOf(matching) == CHOOSE i \in matching : \A k \in matching : i <= k

\* the row's low_freq is a number above 0 outside the entry's range
FreqCheckFails(entry) ==
    /\ det_file.has_low_freq /\ notna(det_file.row.low_freq)
    /\ det_file.row.low_freq[1] > 0
    /\ \/ det_file.row.low_freq[1] < entry.f_min
       \/ det_file.row.low_freq[1] > entry.f_max

\* the duration check is made (line 114) and the duration is outside the
\* entry's range
DurationCheckFails(entry) ==
    LET d == det_file.row.end_time[1] - det_file.row.start_time[1]
    IN  /\ det_file.has_times
        /\ notna(det_file.row.start_time) /\ notna(det_file.row.end_time)
        /\ d # 0
        /\ (d < entry.d_min \/ d > entry.d_max)

NoteKinds == [k \in 1..Len(validation[1].notes) |-> validation[1].notes[k][1]]

HasFreqOutlier == \E k \in 1..Len(NoteKinds) : NoteKinds[k] = "Freq_Outlier"

\* C10: for a detection whose species matches a reference entry, a
\* Freq_Outlier issue is produced iff low_freq > 0 and low_freq is outside
\* [freq_min, freq_max] of the matched entry; low_freq = 0 or absent never
\* produces one.
C10_FreqOutlierIffPositiveOutside ==
    Validated =>
        LET db == load_reference_db(ref_csv)
            matching == Matching(db)
            entry == db[FirstOf(matching)].params
        IN  matching # {} =>
              /\ HasFreqOutlier <=>
                    /\ det_file.has_low_freq /\ notna(det_file.row.low_freq)
                    /\ det_file.row.low_freq[1] > 0
                    /\ ~(/\ entry.f_min <= det_file.row.low_freq[1]
                         /\ det_file.row.low_freq[1] <= entry.f_max)
              /\ (~det_file.has_low_freq \/ det_file.row.low_freq \in {None, Some(0)})
                     => ~HasFreqOutlier

\* C10 witness: a matched row with low_freq 0, below the entry's range, was
\* verified
C10_Witness ==
    /\ Validated
    /\ det_file.has_low_freq /\ det_file.row.low_freq = Some(0)
    /\ det_file.has_class /\ det_file.row.class = Some(<<"P","i","p"," ","p","i","p">>)
    /\ validation[1].status = "NEXUS_Verified"

\* C11: for a detection whose species matches a reference entry and whose
\* duration is available, a Duration_Outlier issue is produced and the
\* status is Review_Required whenever the duration is outside
\* [d_min, d_max] of the matched entry, a duration of 0 ms included.
C11_Original ==
    Validated =>
        LET db == load_reference_db(ref_csv)
            matching == Matching(db)
            entry == db[FirstOf(matching)].params
            d == det_file.row.end_time[1] - det_file.row.start_time[1]
        IN  (/\ matching # {}
             /\ det_file.has_times
             /\ notna(det_file.row.start_time) /\ notna(det_file.row.end_time)
             /\ (d < entry.d_min \/ d > entry.d_max))
            => /\ \E k \in 1..Len(NoteKinds) : NoteKinds[k] = "Duration_Outlier"
               /\ validation[1].status = "Review_Required"

----------------------------------------------------------------------------
\* Properties of the reference lookup (SpecMatch)

\* the lookup keys of the reference table in the order the rows give them:
\* a row's common name, then its name in parentheses, row after row
RECURSIVE KeyList(_, _)
KeyList(rows, i) ==
    IF i > Len(rows) THEN <<>>
    ELSE LET art == rows[i].Art
             paren == {k \in 1..Len(art) : art[k] = "("}
             first == IF paren = {} THEN Len(art) + 1
                      ELSE CHOOSE k \in paren : \A q \in paren : k <= q
             common == lower(strip(SubSeq(art, 1, first - 1)))
             inside == SelectSeq(SubSeq(art, first + 1, Len(art)),
                                 LAMBDA ch : ch # ")" /\ ch # "(")
         IN  <<[key |-> common, row |-> i]>>
             \o (IF paren = {} THEN <<>>
                 ELSE <<[key |-> lower(strip(inside)), row |-> i]>>)
             \o KeyList(rows, i + 1)

RowParams(r) ==
    [f_min |-> r.f_min_khz * 1000, f_max |-> r.f_max_khz * 1000,
     d_min |-> r.d_min_ms, d_max |-> r.d_max_ms]

\* C12: the entry used is that of the first key, in insertion order of the
\* reference rows (common name before alias, earlier rows before later),
\* that is part of the lowercased label, also when the label holds several
\* reference names; with no such key the row is Unknown_Species.
C12_FirstKeyInInsertionOrder ==
    Validated =>
        LET keys == KeyList(ref_csv, 1)
            label == species_detected(det_file, det_file.row)
            hits == {i \in 1..Len(keys) : contains(label, keys[i].key)}
            entry == RowParams(ref_csv[keys[FirstOf(hits)].row])
        IN  /\ hits = {} <=> validation[1].status = "Unknown_Species"
            /\ hits # {} =>
                  /\ validation[1].status = "NEXUS_Verified"
                        <=> (~FreqCheckFails(entry) /\ ~DurationCheckFails(entry))
                  /\ (\E k \in 1..Len(NoteKinds) : NoteKinds[k] = "Freq_Outlier")
                        <=> FreqCheckFails(entry)
                  /\ (\E k \in 1..Len(NoteKinds) : NoteKinds[k] = "Duration_Outlier")
                        <=> DurationCheckFails(entry)

\* C12 witness: the label names Nyc noc before Pip pip, the table has the
\* Pip pip row first, and the row was verified against the Pip pip row
C12_Witness ==
    /\ Validated
    /\ ref_csv = <<RefTable[1], RefTable[2]>>
    /\ det_file.row.class =
          Some(<<"N","y","c"," ","n","o","c","/","P","i","p"," ","p","i","p">>)
    /\ det_file.row.low_freq = Some(50000)
    /\ validation[1].status = "NEXUS_Verified"

----------------------------------------------------------------------------
\* Properties of the validator run (SpecRun)

\* the file has a row whose status is Review_Required or Unknown_Species
NeedsReview(file) ==
    LET db == load_reference_db(ref_csv)
    IN  /\ file.readable
        /\ \E k \in 1..Len(file.rows) :
              validate_row(file, file.rows[k], db).status
                  \in {"Review_Required", "Unknown_Species"}

\* every row of the file is in the table, with the file's name
RowsIn(file, table) ==
    \A k \in 1..Len(file.rows) :
        \E q \in 1..Len(table) :
            /\ table[q].file = file.name
            /\ table[q].index = k - 1
            /\ table[q].row = file.rows[k]

----------------------------------------------------------------------------
\* Properties of the time join (SpecJoin)

Merged == merge_pc = "done"

Distance(x, y) == IF x >= y THEN x - y ELSE y - x

\* the distances from the timestamp to the telemetry rows
Distances(timestamp) ==
    {Distance(timestamp, df_env[i].nexus_timestamp[1]) : i \in 1..Len(df_env)}

\* C14: each recording is matched to a telemetry row of the smallest
\* absolute timestamp distance, earlier or later, and only if that distance
\* is at most 5 seconds; a recording with no telemetry row within 5 seconds
\* keeps its row with no telemetry (telemetry at 10:00:00 and 10:02:00,
\* recording at 10:00:30: no match).
C14_NearestWithinTolerance ==
    Merged =>
        /\ Len(df_asof) = Len(bat_master[1].rows)
        /\ Len(output_file[1]) = Len(bat_master[1].rows)
        /\ \A k \in 1..Len(df_asof) :
              LET l == df_asof[k]
                  dists == Distances(l.absolute_timestamp)
              IN  /\ \E q \in 1..Len(bat_master[1].rows) :
                        /\ bat_master[1].rows[q].filename = l.filename
                        /\ bat_master[1].rows[q].absolute_timestamp
                               = l.absolute_timestamp
                  /\ IF \E d \in dists : d <= 5
                     THEN /\ notna(l.env)
                          /\ \E i \in 1..Len(df_env) : df_env[i] = l.env[1]
                          /\ \A d \in dists :
                                Distance(l.absolute_timestamp,
                                         l.env[1].nexus_timestamp[1]) <= d
                          /\ notna(output_file[1][k].env)
                          /\ output_file[1][k].env[1].Time = l.env[1].Time
                     ELSE isna(l.env) /\ isna(output_file[1][k].env)
        /\ (/\ Len(df_env) = 2
            /\ df_env[1].nexus_timestamp[1] = BaseTimestamp
            /\ df_env[2].nexus_timestamp[1] = BaseTimestamp + 120
            /\ Len(df_asof) = 1
            /\ df_asof[1].absolute_timestamp = BaseTimestamp + 30)
           => isna(df_asof[1].env)

\* C14 witness: a recording at 10:00:06 between telemetry at 10:00:00 and
\* 10:00:10 took the later row, 4 seconds away
C14_Witness ==
    /\ Merged
    /\ Len(df_env) = 2 /\ Len(df_asof) = 1
    /\ df_env[1].nexus_timestamp[1] = BaseTimestamp
    /\ df_env[2].nexus_timestamp[1] = BaseTimestamp + 10
    /\ df_asof[1].absolute_timestamp = BaseTimestamp + 6
    /\ notna(df_asof[1].env)
    /\ df_asof[1].env[1].nexus_timestamp[1] = BaseTimestamp + 10

\* the example of C14 happened: telemetry at 10:00:00 and 10:02:00, a
\* recording at 10:00:30, no match
C14_Example ==
    /\ Merged
    /\ Len(df_env) = 2 /\ Len(df_asof) = 1
    /\ df_env[1].nexus_timestamp[1] = BaseTimestamp
    /\ df_env[2].nexus_timestamp[1] = BaseTimestamp + 120
    /\ df_asof[1].absolute_timestamp = BaseTimestamp + 30
    /\ isna(df_asof[1].env)

----------------------------------------------------------------------------
\* Properties of parse_timestamp (SpecParse)

Ran == merge_pc # "start"

\* the calendar day a date spells
DayOf(date) == CHOOSE d \in CalendarDays : date \in {d.dmy4, d.dmy2, d.iso}

\* C15: for the same calendar day and time, the spellings DD.MM.YYYY,
\* DD.MM.YY and YYYY-MM-DD yield the same valid timestamp, so telemetry
\* rows in any of the three spellings take part in the time join.
C15_Original ==
    Ran =>
        LET rows == nexus_files[1].rows
        IN  /\ \A k \in 1..Len(rows) :
                  \E i \in 1..Len(df_env) :
                      /\ df_env[i].Date = rows[k].Date
                      /\ notna(df_env[i].nexus_timestamp)
                      /\ \A d \in {DayOf(rows[k].Date)} :
                            /\ parse_timestamp(d.dmy4, rows[k].Time)
                                   = df_env[i].nexus_timestamp
                            /\ parse_timestamp(d.dmy2, rows[k].Time)
                                   = df_env[i].nexus_timestamp
            /\ (\E k \in 1..Len(rows) :
                   Distance(parse_timestamp(DayOf(rows[k].Date).dmy4,
                                            rows[k].Time)[1],
                            bat_master[1].rows[1].absolute_timestamp) <= 5)
               => (Merged /\ notna(df_asof[1].env))

\* the rows spelled DD.MM.YYYY and DD.MM.YY do: they get the same valid
\* timestamp and take part in the join
DottedDatesParse ==
    Ran =>
        LET rows == nexus_files[1].rows
            dotted == {k \in 1..Len(rows) :
                          rows[k].Date # DayOf(rows[k].Date).iso}
        IN  /\ \A k \in dotted :
                  \E i \in 1..Len(df_env) :
                      /\ df_env[i].Date = rows[k].Date
                      /\ parse_timestamp(DayOf(rows[k].Date).dmy4, rows[k].Time)
                             = df_env[i].nexus_timestamp
                      /\ parse_timestamp(DayOf(rows[k].Date).dmy2, rows[k].Time)
                             = df_env[i].nexus_timestamp
                      /\ notna(df_env[i].nexus_timestamp)
            /\ \A i \in 1..Len(df_env) :
                  df_env[i].Date # DayOf(df_env[i].Date).iso

----------------------------------------------------------------------------
\* Properties of the species step (SpecSpecies)

\* the species step ran: SPECIES_FILE exists and has the basename column
SpeciesStepRan ==
    /\ Merged
    /\ notna(species_csv) /\ species_csv[1].has_basename

\* the text has something besides not-available markers and separators
HasName(text) ==
    \E i \in 1..Len(text) :
        /\ text[i] \notin {",", " "}
        /\ ~\E k \in (i - 2)..i :
               k >= 1 /\ SubSeq(text, k, k + 2) = <<"n", "a", "n">>

\* C16: the cleaned species text has no not-available marker and no
\* separator at its ends, and is "Unidentified", never empty, when the
\* joined value is missing or has nothing but markers and separators.
C16_Original ==
    SpeciesStepRan =>
        \A k \in 1..Len(output_file[1]) :
            LET row == output_file[1][k]
                cleaned == row.species_classified[1]
            IN  /\ cleaned # <<>>
                /\ find(cleaned, <<"n", "a", "n">>) = 0
                /\ (isna(row.species) \/ ~HasName(row.species[1]))
                       <=> cleaned = <<"U","n","i","d","e","n","t","i","f","i","e","d">>

\* when the joined value is missing the result is "Unidentified", and a
\* value with a name keeps its names without markers
MissingIsUnidentified ==
    SpeciesStepRan =>
        \A k \in 1..Len(output_file[1]) :
            LET row == output_file[1][k]
            IN  /\ isna(row.species) =>
                      row.species_classified[1]
                          = <<"U","n","i","d","e","n","t","i","f","i","e","d">>
                /\ (notna(row.species) /\ HasName(row.species[1])) =>
                      /\ row.species_classified[1] # <<>>
                      /\ find(row.species_classified[1], <<"n", "a", "n">>) = 0

----------------------------------------------------------------------------
\* Properties of the segment index (SpecSplit)

\* the index entries of a file, in index order
EntriesOf(name) ==
    SelectSeq(segment_list, LAMBDA e : e.original_filename = name)

RECURSIVE SumSamples(_)
SumSamples(entries) ==
    IF entries = <<>> THEN 0
    ELSE Head(entries).segment_samples + SumSamples(Tail(entries))

----------------------------------------------------------------------------
\* Properties of the Bat/GPS master table (SpecGps)

InBox(lat, lon) == 35 <= lat /\ lat <= 70 /\ -10 <= lon /\ lon <= 30

\* the records of the table, written or not yet
Emitted ==
    {points_for_kml[k] : k \in 1..Len(points_for_kml)}
    \cup (IF master_csv = None THEN {}
          ELSE {master_csv[1][k] : k \in 1..Len(master_csv[1])})

\* the files the scan has passed
Scanned == IF wav_dir = None THEN {} ELSE {wav_dir[1][i] : i \in 1..(gps_next - 1)}

\* the position the file's extraction path read: which path, and the raw
\* pair
RawReadings(file) ==
    IF ~file.nonempty THEN {}
    ELSE LET usable ==
                 IF isna(file.guano) THEN {}
                 ELSE {k \in 1..Len(file.guano[1].positions) :
                          LET q == file.guano[1].positions[k]
                          IN  InBox(q.lat, q.lon) \/ InBox(q.lon, q.lat)}
         IN  IF usable # {}
             THEN {[path |-> "GUANO",
                    pos |-> file.guano[1].positions[
                                CHOOSE k \in usable : \A j \in usable : k <= j]]}
             ELSE IF notna(file.header)
             THEN {[path |-> "TeensyBat", pos |-> file.header[1]]}
             ELSE {}

\* C18: every record of the Bat/GPS master table lies inside the box
\* 35 <= latitude <= 70, -10 <= longitude <= 30, whichever path produced
\* it; a recording whose position is outside the box, as read and swapped,
\* is never emitted.
C18_EmittedInsideBox ==
    /\ \A p \in Emitted : InBox(p.latitude, p.longitude)
    /\ \A file \in Scanned :
          (\A r \in RawReadings(file) :
              ~InBox(r.pos.lat, r.pos.lon) /\ ~InBox(r.pos.lon, r.pos.lat))
          => ~\E p \in Emitted : p.filename = file.name

\* C18 witness: the table was written without a.wav, whose text chunk has a
\* position outside the box, and with b.wav
C18_Witness ==
    /\ gps_pc = "done"
    /\ master_csv # None
    /\ Len(wav_dir[1]) = 2
    /\ isna(wav_dir[1][1].guano)
    /\ wav_dir[1][1].header # None
    /\ wav_dir[1][1].header[1].lat = 71 /\ wav_dir[1][1].header[1].lon = 30
    /\ \A p \in Emitted : p.filename = "b"

\* C19: whenever the raw (lat, lon) read from a recording fails the test
\* but the swapped pair passes, the recording is accepted with the swapped
\* values and a provenance tag that records the correction, on either
\* extraction path.
C19_Original ==
    \A file \in Scanned :
        \A r \in RawReadings(file) :
            (~InBox(r.pos.lat, r.pos.lon) /\ InBox(r.pos.lon, r.pos.lat))
            => \E p \in Emitted :
                  /\ p.filename = file.name
                  /\ p.latitude = r.pos.lon /\ p.longitude = r.pos.lat
                  /\ \E k \in 1..Len(p.source) : p.source[k] = "(Lat/Lon swapped)"

\* on the GUANO path it is so
SwapOnGuanoPath ==
    \A file \in Scanned :
        \A r \in RawReadings(file) :
            (/\ r.path = "GUANO"
             /\ ~InBox(r.pos.lat, r.pos.lon) /\ InBox(r.pos.lon, r.pos.lat))
            => \E p \in Emitted :
                  /\ p.filename = file.name
                  /\ p.latitude = r.pos.lon /\ p.longitude = r.pos.lat
                  /\ \E k \in 1..Len(p.source) : p.source[k] = "(Lat/Lon swapped)"

----------------------------------------------------------------------------
\* Properties of the orchestrator (SpecCommander)

\* C20: the stages are launched strictly in the order of PIPELINE_SEQUENCE,
\* one at a time and each at most once, and a stage is launched only if no
\* earlier stage failed: the first stage that fails is the last one launched.
C20_InOrderUntilFirstFailure ==
    /\ \A k \in 1..Len(launched) :
          /\ launched[k].stage \in 1..Len(PIPELINE_SEQUENCE)
          /\ launched[k].script = PIPELINE_SEQUENCE[launched[k].stage]
          /\ \A j \in 1..(k - 1) :
                /\ launched[j].stage < launched[k].stage
                /\ launched[j].outcome = "ok"
    /\ \A s \in 1..Len(PIPELINE_SEQUENCE) :
          (\E k \in 1..Len(launched) : launched[k].stage > s)
          => \/ is_skipped(PIPELINE_SEQUENCE[s], missing_scripts)
             \/ \E j \in 1..Len(launched) :
                   launched[j].stage = s /\ launched[j].outcome = "ok"
    /\ (\E k \in 1..Len(launched) : launched[k].outcome # "ok")
       => cmd_pc \in {"finally", "done"}

\* C20 witness: the run has ended after three stages ran in order and the
\* third failed, with stages left that were never launched
C20_Witness ==
    /\ cmd_pc = "done"
    /\ Len(launched) = 3
    /\ launched[3].outcome = "CalledProcessError"
    /\ launched[3].stage < Len(PIPELINE_SEQUENCE)
    /\ exit_code = Some(1)

\* the balanced plan has been asked for
BalancedRequested ==
    \E k \in 1..Len(power_requests) : power_requests[k] = "PLAN_BALANCED"

\* C21: once the run has ended, on whichever path, the high-performance
\* plan was requested first and the balanced plan last; after the balanced
\* plan was requested no stage is launched and no plan is requested.
C21_BalancedPlanLast ==
    /\ [](cmd_pc = "done"
          => /\ Len(power_requests) = 2
             /\ power_requests[1] = "PLAN_HIGH_PERFORMANCE"
             /\ power_requests[2] = "PLAN_BALANCED")
    /\ [](cmd_pc # "start" => Len(power_requests) >= 1)
    /\ [][BalancedRequested
          => launched' = launched /\ power_requests' = power_requests]_vars

\* C21 witness: the run ended after a stage raised an unexpected exception
C21_Witness ==
    /\ cmd_pc = "done"
    /\ Len(launched) >= 2
    /\ launched[Len(launched)].outcome = "Exception"
    /\ power_requests = <<"PLAN_HIGH_PERFORMANCE", "PLAN_BALANCED">>

\* C30: when the run ends and a stage returned a non-zero exit or raised an
\* unexpected exception, the exit status of the orchestrator is non-zero;
\* exit status zero is reached only when no stage failed.
C30_Original ==
    cmd_pc = "done"
    => /\ (\E k \in 1..Len(launched) : launched[k].outcome # "ok")
          => exit_code # Some(0)
       /\ exit_code = Some(0)
          => \A k \in 1..Len(launched) : launched[k].outcome = "ok"

\* for a stage that returned a non-zero exit it is so
NonZeroExitOfStageIsNonZeroExit ==
    cmd_pc = "done"
    => ((\E k \in 1..Len(launched) : launched[k].outcome = "CalledProcessError")
        <=> exit_code = Some(1))

----------------------------------------------------------------------------
\* Properties of bat_summary.py's failure handling (Spec, SpecFaulty)

\* C22: when the run has ended and both the JSON table and the CSV table
\* are empty, main has returned without writing any output: no
\* all_detections.csv, no per-file CSV, no species_summary.csv and no
\* species_per_file.csv.
C22_EmptyTablesWriteNothing ==
    (pc = "done" /\ df_json = <<>> /\ df_csv = <<>>)
    => /\ ~outputs_written
       /\ df = <<>>
       /\ species_counts = <<>>
       /\ species_per_file = <<>>

\* C22 witness: a JSON file was read, none of its detections survived, and
\* there is no CSV file
C22_Witness ==
    /\ pc = "done"
    /\ files_json # <<>> /\ files_json[1].annotation # <<>>
    /\ files_csv = <<>>
    /\ df_json = <<>> /\ df_csv = <<>>
    /\ ~outputs_written

\* the files of a batch that could be opened and parsed
Readable(files) == SelectSeq(files, LAMBDA f : f.readable)

\* C23: a file whose reading or parsing raises is passed over, and the
\* tables the loaders return are the ones they return for the other files
\* alone, for the JSON files and for the CSV files.
C23_UnreadableFilePassedOver ==
    pc = "done"
    => /\ df_json = load_all_json(Readable(files_json), SCORE_THRESHOLD)
       /\ df_csv = load_all_csv(Readable(files_csv))
       /\ \A i \in 1..Len(files_json) :
             ~files_json[i].readable
             => ~\E k \in 1..Len(df_json) :
                    df_json[k].basename = files_json[i].basename
       /\ \A i \in 1..Len(files_csv) : \A n \in 1..Len(files_csv[i].rows) :
             files_csv[i].readable
             => \E k \in 1..Len(df_csv) :
                    df_csv[k].basename = files_csv[i].basename

\* C23 witness: a JSON file and a CSV file could not be read, and the tables
\* hold the rows of the other JSON file, which comes after it, and of the
\* other CSV file
C23_Witness ==
    /\ pc = "done"
    /\ Len(files_csv) = 2
    /\ ~files_json[1].readable /\ ~files_csv[1].readable
    /\ \E k \in 1..Len(df_json) : df_json[k].basename = files_json[2].basename
    /\ \E k \in 1..Len(df_csv) : df_csv[k].basename = files_csv[2].basename

\* the detections the loop has appended, in order: of every readable file
\* the entries before its first bad one
RECURSIVE ReadDets(_)
ReadDets(files) ==
    IF files = <<>> THEN <<>>
    ELSE LET f == Head(files)
             bad == {k \in 1..Len(f.annotation) : ~f.annotation[k].is_dict}
             n == IF ~f.readable THEN 0
                  ELSE IF bad = {} THEN Len(f.annotation)
                  ELSE (CHOOSE k \in bad : \A j \in bad : k <= j) - 1
         IN  SubSeq(f.annotation, 1, n) \o ReadDets(Tail(files))

\* freq_mean / 1000 if present, else (low_freq + high_freq) / 2000 if both
\* are present, else not available
ExpectedFreqMean(det) ==
    IF det.freq_mean # None THEN Some((det.freq_mean[1] * KHZ) \div 1000)
    ELSE IF det.low_freq # None /\ det.high_freq # None
    THEN Some(((det.low_freq[1] + det.high_freq[1]) * KHZ) \div 2000)
    ELSE None

\* C24: every row of the JSON table has the freq_mean of its detection,
\* freq_mean/1000 if the field is present, else (low_freq + high_freq)/2000
\* if both band edges are present; a detection with neither has no row, and
\* in an unscored batch every other detection has one.
C24_FreqMeanDerivation ==
    pc = "done"
    => LET dets == ReadDets(files_json)
       IN  /\ \A k \in 1..Len(df_json) :
                 /\ df_json[k].index + 1 \in 1..Len(dets)
                 /\ df_json[k].freq_mean # None
                 /\ df_json[k].freq_mean = ExpectedFreqMean(dets[df_json[k].index + 1])
           /\ \A i \in 1..Len(dets) :
                 ExpectedFreqMean(dets[i]) = None
                 => ~\E k \in 1..Len(df_json) : df_json[k].index = i - 1
           /\ (\A i \in 1..Len(dets) : dets[i].det_prob = None)
              => \A i \in 1..Len(dets) :
                    ExpectedFreqMean(dets[i]) # None
                    => \E k \in 1..Len(df_json) : df_json[k].index = i - 1

\* C24 witness: a detection with freq_mean 30 kHz and band edges around
\* 41 kHz has a row of 30 kHz, and a detection with no frequency has none
C24_Witness ==
    /\ pc = "done"
    /\ LET dets == ReadDets(files_json)
       IN  /\ \E k \in 1..Len(df_json) :
                 /\ dets[df_json[k].index + 1].freq_mean = Some(30000)
                 /\ dets[df_json[k].index + 1].low_freq = Some(40000)
                 /\ dets[df_json[k].index + 1].high_freq = Some(42000)
                 /\ df_json[k].freq_mean = Some(30 * KHZ)
           /\ \E i \in 1..Len(dets) :
                 /\ ExpectedFreqMean(dets[i]) = None
                 /\ ~\E k \in 1..Len(df_json) : df_json[k].index = i - 1

\* C25: a JSON file in which processing raised at some detection has no row
\* in the JSON table.
C25_Original ==
    pc = "done"
    => \A i \in 1..Len(files_json) :
          (\E n \in 1..Len(files_json[i].annotation) :
              ~files_json[i].annotation[n].is_dict)
          => ~\E k \in 1..Len(df_json) :
                 df_json[k].basename = files_json[i].basename

Reverse(s) == [i \in 1..Len(s) |-> s[Len(s) + 1 - i]]

\* how often each row occurs in a frame
Occurrences(frame) ==
    [r \in {frame[i] : i \in 1..Len(frame)} |->
        Cardinality({i \in 1..Len(frame) : frame[i] = r})]

\* C27: a run over the same files in the opposite order gives the same
\* count per species and the same detections, each as often, and so the
\* same decision of the confidence filter.
C27_OrderIndependentAggregates ==
    pc = "done"
    => LET m == main(Reverse(files_json), Reverse(files_csv))
       IN  /\ m.species_counts = species_counts
           /\ Occurrences(m.df) = Occurrences(df)
           /\ m.outputs_written = outputs_written

\* C27 witness: two JSON files with surviving detections of different
\* species each and two CSV files, the run having written its outputs
C27_Witness ==
    /\ pc = "done"
    /\ outputs_written
    /\ Len(files_csv) = 2 /\ files_csv[1].readable
    /\ \E i, k \in 1..Len(df) :
          /\ df[i].basename = "a" /\ df[k].basename = "b"
          /\ df[i].species # df[k].species
    /\ Reverse(files_json) # files_json

\* C28: when both tables are non-empty, the canonical table has exactly one
\* row for every row of the JSON table, in its order and with its key, also
\* when several CSV rows have that key, and no row for a key that only the
\* CSV table has.
C28_Original ==
    (pc = "done" /\ df_json # <<>> /\ df_csv # <<>>)
    => /\ Len(df) = Len(df_json)
       /\ \A i \in 1..Len(df) : SameKey(df[i], df_json[i])
       /\ \A i \in 1..Len(df) : \E k \in 1..Len(df_json) : SameKey(df[i], df_json[k])

\* every row of the JSON table has at least one canonical row, as many as
\* CSV rows share its key, and keys of the CSV table alone have none
OneRowPerJsonAndCsvMatch ==
    (pc = "done" /\ df_json # <<>> /\ df_csv # <<>>)
    => /\ \A k \in 1..Len(df_json) :
             LET n == Cardinality({c \in 1..Len(df_csv) : SameKey(df_csv[c], df_json[k])})
                 same == {j \in 1..Len(df_json) : SameKey(df_json[j], df_json[k])}
             IN  Cardinality({i \in 1..Len(df) : SameKey(df[i], df_json[k])})
                 = Cardinality(same) * (IF n = 0 THEN 1 ELSE n)
       /\ \A i \in 1..Len(df) : \E k \in 1..Len(df_json) : SameKey(df[i], df_json[k])

----------------------------------------------------------------------------
\* Properties of the Bat/GPS master table's timestamps (SpecGps)

\* C29: every record of the Bat/GPS master table has a timestamp; a
\* recording whose timestamp could not be recovered is not emitted.
C29_Original == \A p \in Emitted : p.timestamp # None

\* the timestamp of a record is the one of the metadata its position came
\* from, missing if that is missing
TimestampFollowsPosition ==
    \A file \in Scanned : \A p \in Emitted :
        p.filename = file.name
        => \/ /\ p.source[1] = "GUANO"
              /\ p.timestamp = file.guano[1].timestamp
           \/ /\ p.source[1] = "TeensyBat"
              /\ p.timestamp = file.header[1].timestamp

----------------------------------------------------------------------------
\* Properties of a run without detection data (SpecCommander)

\* C26: in a run in which bat_summary.py wrote no outputs, the activity
\* chart, the QA graphics and the Pareto analysis end with success status,
\* so that the pipeline is not aborted by any of them.
C26_Original ==
    no_detections
    => \A k \in 1..Len(launched) :
          launched[k].script \in {"bat_activity.py",
                                  "create_bat_graphics_path_fixed.py",
                                  "pareto_fledermaus.py"}
          => launched[k].outcome = "ok"

\* the activity chart does end so
ActivityChartToleratesNoData ==
    no_detections
    => \A k \in 1..Len(launched) :
          launched[k].script = "bat_activity.py" => launched[k].outcome = "ok"

====
